---- MODULE Spec2Model ----
(***************************************************************************)
(* filter-rspamd: an OpenSMTPD filter that hands each message to Rspamd    *)
(* and replays it with the verdict applied.                                *)
(*                                                                         *)
(* Text is modelled as sequences of one-character strings, so that the     *)
(* prefix tests, the splitting on "|" and the dot-stuffing of the source   *)
(* are computed, not assumed.  Session ids and tokens are numbers.         *)
(***************************************************************************)
EXTENDS Integers, Sequences, FiniteSets, TLC

\* ------------------------------------------------------------------ bounds
\* Longest message body (in lines) the daemon sends in one transaction.
MaxBody == 2
\* Transactions the daemon runs on one connection.
MaxTx == 1
\* Longest line, and longest body, of the pure-function specifications.
MaxLineLen == 3
MaxReplay == 4
\* Lines the daemon sends before config|ready.
MaxSkip == 2

\* ------------------------------------------------------------------ text
DOT == "."
PIPE == "|"
TAB == "\t"
SP == " "
NL == "\n"
COLON == ":"

\* strings.HasPrefix
HasPrefix(s, p) ==
    /\ Len(s) >= Len(p)
    /\ SubSeq(s, 1, Len(p)) = p

\* strings.TrimPrefix
TrimPrefix(s, p) ==
    IF HasPrefix(s, p) THEN SubSeq(s, Len(p) + 1, Len(s)) ELSE s

\* Index of the first occurrence of character c in s at or after i, 0 if none.
RECURSIVE IndexFrom(_, _, _)
IndexFrom(s, c, i) ==
    IF i > Len(s) THEN 0
    ELSE IF s[i] = c THEN i
    ELSE IndexFrom(s, c, i + 1)

\* strings.Split(s, c) for a one-character separator: always at least one part.
RECURSIVE Split(_, _)
Split(s, c) ==
    LET k == IndexFrom(s, c, 1) IN
    IF k = 0 THEN <<s>>
    ELSE <<SubSeq(s, 1, k - 1)>> \o Split(SubSeq(s, k + 1, Len(s)), c)

\* strings.Join(parts, sep)
RECURSIVE Join(_, _)
Join(parts, sep) ==
    IF Len(parts) = 0 THEN <<>>
    ELSE IF Len(parts) = 1 THEN parts[1]
    ELSE parts[1] \o sep \o Join(Tail(parts), sep)

\* Byte order of the characters the model uses (Go compares strings bytewise);
\* the table is ASCII without the grave accent.
Ascii ==
    <<"\t", "\n", " ", "!", "\"", "#", "$", "%", "&", "'", "(", ")",
      "*", "+", ",", "-", ".", "/", "0", "1", "2", "3", "4", "5",
      "6", "7", "8", "9", ":", ";", "<", "=", ">", "?", "@", "A",
      "B", "C", "D", "E", "F", "G", "H", "I", "J", "K", "L", "M",
      "N", "O", "P", "Q", "R", "S", "T", "U", "V", "W", "X", "Y",
      "Z", "[", "\\", "]", "^", "_", "a", "b", "c", "d", "e",
      "f", "g", "h", "i", "j", "k", "l", "m", "n", "o", "p", "q",
      "r", "s", "t", "u", "v", "w", "x", "y", "z", "{", "|", "}",
      "~">>

Code(c) == CHOOSE i \in 1..Len(Ascii) : Ascii[i] = c

\* Go's  a < b  on strings.
RECURSIVE StrLess(_, _)
StrLess(a, b) ==
    IF Len(b) = 0 THEN FALSE
    ELSE IF Len(a) = 0 THEN TRUE
    ELSE IF a[1] = b[1] THEN StrLess(Tail(a), Tail(b))
    ELSE Code(a[1]) < Code(b[1])

Digits == <<"0", "1", "2", "3", "4", "5", "6", "7", "8", "9">>

\* Decimal digits of a natural number.
RECURSIVE IntStr(_)
IntStr(n) ==
    IF n < 10 THEN <<Digits[n + 1]>>
    ELSE IntStr(n \div 10) \o <<Digits[(n % 10) + 1]>>

\* fmt "%.3f" of a non-negative number given in thousandths.
Fmt3f(m) ==
    IntStr(m \div 1000) \o <<DOT>>
        \o <<Digits[((m \div 100) % 10) + 1], Digits[((m \div 10) % 10) + 1],
             Digits[(m % 10) + 1]>>

\* The score written with three decimals, as "%.3f" writes it.
FmtV_ThreeDecimals(m) == Fmt3f(m)

\* fmt "%v" of a float32 given in thousandths: the shortest decimal that
\* reads back, so trailing zeros and a bare decimal point are dropped.
FmtV(m) ==
    LET f == m % 1000
        frac == IF f = 0 THEN <<>>
                ELSE IF f % 100 = 0 THEN <<DOT, Digits[(f \div 100) + 1]>>
                ELSE IF f % 10 = 0
                     THEN <<DOT, Digits[(f \div 100) + 1], Digits[((f \div 10) % 10) + 1]>>
                ELSE <<DOT, Digits[(f \div 100) + 1], Digits[((f \div 10) % 10) + 1],
                       Digits[(f % 10) + 1]>>
    IN  IntStr(m \div 1000) \o frac

\* ------------------------------------------------------- fixed program text
SubjectPrefix ==
    <<"S", "u", "b", "j", "e", "c", "t", ":", " ">>
DkimSignature ==
    <<"D", "K", "I", "M", "-", "S", "i", "g", "n", "a", "t", "u", "r", "e">>
XSpam ==
    <<"X", "-", "S", "p", "a", "m">>
Yes ==
    <<"y", "e", "s">>
XSpamScore ==
    <<"X", "-", "S", "p", "a", "m", "-", "S", "c", "o", "r", "e">>
XSpamStatus ==
    <<"X", "-", "S", "p", "a", "m", "-", "S", "t", "a", "t", "u", "s">>
TestsOpen ==
    <<"t", "e", "s", "t", "s", "=", "[">>
ArcSeal ==
    <<"A", "R", "C", "-", "S", "e", "a", "l">>
ArcMessageSignature ==
    <<"A", "R", "C", "-", "M", "e", "s", "s", "a", "g", "e", "-", "S", "i", "g", "n", "a", "t", "u", "r", "e">>
ArcAuthenticationResults ==
    <<"A", "R", "C", "-", "A", "u", "t", "h", "e", "n", "t", "i", "c", "a", "t", "i", "o", "n", "-", "R", "e", "s", "u", "l", "t", "s">>
AuthenticationResults ==
    <<"A", "u", "t", "h", "e", "n", "t", "i", "c", "a", "t", "i", "o", "n", "-", "R", "e", "s", "u", "l", "t", "s">>
StatusYes ==
    <<"Y", "e", "s">>
ScoreEq ==
    <<",", " ", "s", "c", "o", "r", "e", "=">>
RequiredEq ==
    <<" ", "r", "e", "q", "u", "i", "r", "e", "d", "=">>
Slash ==
    <<" ", "/", " ">>
\* The line that ends a data block.
Terminator == <<DOT>>
\* Column budget of the folded tests=[...] header.
ColumnBudget == 68

\* ------------------------------------------------- the verdict (type rspamd)
\* A decoded response: Action and SMTP are compared or copied whole and are
\* plain strings; Subject, header names and header values are text.  Scores
\* are in thousandths.  DKIMSig is [kind, v] with kind "absent", "string"
\* (v a text) or "list" (v a sequence of [ok, v], ok false for an entry that
\* is no JSON string).  Add is a set of [h, kind, v] with distinct h, kind
\* "string", "object" (v the text under "value"), "objectNoValue" or "other".
NoDkim == [kind |-> "absent", v |-> <<>>]

\* writeLine without the escaping, as the earlier revision sent lines.
writeLine_NoEscape(line) == line

\* writeLine: the payload of the filter-dataline it produces.
writeLine(line) ==
    IF HasPrefix(line, <<DOT>>) THEN <<DOT>> \o line ELSE line

\* writeHeader: the payloads of the filter-datalines it produces.
writeHeader(h, t) ==
    LET parts == Split(t, NL) IN
    [i \in 1..Len(parts) |->
        IF i = 1 THEN h \o <<COLON, SP>> \o parts[1] ELSE parts[i]]

\* flushMessage: every stored line through writeLine, then the terminator.
flushMessage(message) ==
    [i \in 1..Len(message) |-> writeLine(message[i])] \o <<Terminator>>

\* rspamdQuery, the DKIM-Signature switch.
RECURSIVE DkimListLines(_)
DkimListLines(v) ==
    IF Len(v) = 0 THEN <<>>
    ELSE (IF v[1].ok /\ v[1].v # <<>>
          THEN writeHeader(DkimSignature, v[1].v) ELSE <<>>)
         \o DkimListLines(Tail(v))

\* The DKIM-Signature field taken as a string only, as the earlier revision did.
DkimLines_StringOnly(sig) ==
    IF sig.kind = "string" /\ sig.v # <<>> THEN writeHeader(DkimSignature, sig.v) ELSE <<>>

DkimLines(sig) ==
    CASE sig.kind = "list" -> DkimListLines(sig.v)
      [] sig.kind = "string" ->
            IF sig.v # <<>> THEN writeHeader(DkimSignature, sig.v) ELSE <<>>
      [] OTHER -> <<>>

\* sort.Strings
RECURSIVE SortStrings(_)
SortStrings(S) ==
    IF S = {} THEN <<>>
    ELSE LET m == CHOOSE x \in S : \A y \in S \ {x} : StrLess(x, y)
         IN  <<m>> \o SortStrings(S \ {m})

\* rspamdQuery, the loop that folds the symbols: i counts from 1 here.
RECURSIVE TestsFrom(_, _, _, _)
TestsFrom(symbols, scores, i, buf) ==
    IF i > Len(symbols) THEN << <<TAB>> \o buf \o <<"]">> >>
    ELSE LET sym == symbols[i] \o <<"=">> \o Fmt3f(scores[symbols[i]])
             flush == Len(buf) > 0 /\ Len(sym) + Len(buf) > ColumnBudget
             buf1 == IF flush THEN <<>> ELSE buf
             buf2 == IF Len(buf1) > 0 /\ i > 1 THEN buf1 \o <<",", SP>> ELSE buf1
         IN  (IF flush THEN << <<TAB>> \o buf >> ELSE <<>>)
                 \o TestsFrom(symbols, scores, i + 1, buf2 \o sym)

\* rspamdQuery, the "add header" block.
SpamLines(rr) ==
    IF rr.Action # "add header" THEN <<>>
    ELSE << XSpam \o <<COLON, SP>> \o Yes,
            XSpamScore \o <<COLON, SP>> \o FmtV(rr.Score) \o Slash \o FmtV(rr.RequiredScore) >>
         \o (IF DOMAIN rr.Symbols = {} THEN <<>>
             ELSE << XSpamStatus \o <<COLON, SP>> \o StatusYes \o ScoreEq \o Fmt3f(rr.Score)
                        \o RequiredEq \o Fmt3f(rr.RequiredScore) >>
                  \o TestsFrom(SortStrings(DOMAIN rr.Symbols), rr.Symbols, 1, TestsOpen))

\* The fixed order in which the collected authentication headers are written.
hdrs == <<ArcSeal, ArcMessageSignature, ArcAuthenticationResults, AuthenticationResults>>

\* rspamdQuery, the add_headers block.  A Go map is ranged over in an
\* unspecified order: order is the order this run ranges over rr.Add.
RECURSIVE PlainLines(_)
PlainLines(order) ==
    IF Len(order) = 0 THEN <<>>
    ELSE (IF order[1].kind = "string" THEN writeHeader(order[1].h, order[1].v) ELSE <<>>)
         \o PlainLines(Tail(order))

RECURSIVE AuthLines(_, _)
AuthLines(add, i) ==
    IF i > Len(hdrs) THEN <<>>
    ELSE (IF \E e \in add : e.h = hdrs[i] /\ e.kind = "object" /\ e.v # <<>>
          THEN LET e == CHOOSE e \in add : e.h = hdrs[i] /\ e.kind = "object"
               IN  writeHeader(hdrs[i], e.v)
          ELSE <<>>)
         \o AuthLines(add, i + 1)

AddLines_AuthFirst(rr, order) ==
    IF rr.Add = {} THEN <<>>
    ELSE AuthLines(rr.Add, 1) \o PlainLines(order)

AddLines(rr, order) ==
    IF rr.Add = {} THEN <<>>
    ELSE PlainLines(order) \o AuthLines(rr.Add, 1)

\* Every order a map with these entries can be ranged over in.
RECURSIVE Orders(_)
Orders(S) ==
    IF S = {} THEN {<<>>}
    ELSE UNION {{<<x>> \o o : o \in Orders(S \ {x})} : x \in S}

\* The replay loop taking only a tab for a continuation, as the earlier
\* revision did.
Continuation_TabOnly(line) == HasPrefix(line, <<TAB>>)

\* The replay loop: a folded continuation line.
Continuation(line) == HasPrefix(line, <<TAB>>) \/ HasPrefix(line, <<SP>>)

\* The subject test without its header-section condition.
SubjectLine_Anywhere(rr, inhdr, line) ==
    rr.Action = "rewrite subject" /\ HasPrefix(line, SubjectPrefix)

\* The replay loop: the line is one whose subject is substituted.
SubjectLine(rr, inhdr, line) ==
    rr.Action = "rewrite subject" /\ inhdr /\ HasPrefix(line, SubjectPrefix)

\* rspamdQuery, the replay loop: the payloads produced from line i on.
RECURSIVE ReplayFrom(_, _, _, _, _)
ReplayFrom(message, i, inhdr, rmhdr, rr) ==
    IF i > Len(message) THEN <<>>
    ELSE LET line == message[i]
             inhdr1 == IF line = <<>> THEN FALSE ELSE inhdr
             rmhdr1 == IF line = <<>> THEN FALSE ELSE rmhdr
         IN  IF inhdr1 /\ rmhdr1 /\ Continuation(line)
             THEN ReplayFrom(message, i + 1, inhdr1, rmhdr1, rr)
             ELSE IF inhdr1 /\ rr.Remove # {}
                        /\ \E h \in rr.Remove : HasPrefix(line, h \o <<COLON>>)
             THEN ReplayFrom(message, i + 1, inhdr1, TRUE, rr)
             ELSE << IF SubjectLine(rr, inhdr1, line)
                     THEN SubjectPrefix \o rr.Subject
                     ELSE writeLine(line) >>
                  \o ReplayFrom(message, i + 1, inhdr1, FALSE, rr)

Replay(message, rr) ==
    ReplayFrom(message, 1, TRUE, FALSE, rr) \o <<Terminator>>

\* ------------------------------------------------------------ model inputs
SessionIds == {1, 2}

\* Protocol versions the daemon may announce: one below "0.5", one not.
Versions == {<<"0", ".", "4">>, <<"0", ".", "7">>}
V05 == <<"0", ".", "5">>
V06 == <<"0", ".", "6">>

\* The daemon numbers its requests: the token of the data lines and of the
\* commit of transaction n of a session.
DataToken(sid, n) == 100 + 20 * sid + 2 * n
CommitToken(sid, n) == 101 + 20 * sid + 2 * n

\* Raw data lines (the text after the token) the daemon may send as content:
\* a stuffed dot, a line holding the field separator, a line whose single
\* leading dot was not stuffed, and the empty line.
Payloads == {<<DOT, DOT>>, <<"a", PIPE, "b">>, <<DOT, "a">>, <<>>}

BaseVerdict ==
    [Action |-> "no action", SMTP |-> "", Subject |-> <<>>, DKIMSig |-> NoDkim,
     Remove |-> {}, Add |-> {}, Score |-> 0, RequiredScore |-> 0, Symbols |-> <<>>]

\* Verdicts the engine may answer with in the system specification.
Verdicts ==
    {[BaseVerdict EXCEPT !.Action = "reject", !.SMTP = "spam detected"],
     [BaseVerdict EXCEPT !.Action = "reject"],
     [BaseVerdict EXCEPT !.Action = "soft reject", !.SMTP = "slow down"],
     [BaseVerdict EXCEPT !.Action = "soft reject"],
     [BaseVerdict EXCEPT !.Action = "greylist", !.SMTP = "try again later"],
     [BaseVerdict EXCEPT !.Action = "add header", !.Score = 12300, !.RequiredScore = 6000],
     [BaseVerdict EXCEPT !.Action = "rewrite subject", !.Subject = <<"x">>],
     BaseVerdict}

\* ------------------------------------------------------------------- state
VARIABLES
    sessions,       \* the registry: session id -> the session object it points to
    heap,           \* the session objects allocated so far (type session)
    version,        \* the version field of the last ingress line
    tasks,          \* the rspamdQuery goroutines, by the token they were started with
    sink,           \* the line the output goroutine has received and not yet printed
    stdout,         \* the lines printed, in order
    main,           \* the main goroutine: where it stands and what it read last
    daemon          \* where the mail daemon stands with each connection

vars == <<sessions, heap, version, tasks, sink, stdout, main, daemon>>

\* main is [pc, read, last]: pc is "skip" in skipConfig, "register" in
\* filterInit, "loop" in the dispatch loop, "exited" after os.Exit(0) and
\* "fatal" after log.Fatal; read counts the lines skipConfig has read; last
\* is the line the dispatch loop read last.
\* The line read last: form is "none" before any line, "short" for a line of
\* fewer than six fields, "full" otherwise, and then stream, event and sid are
\* its fields 1, 5 and 6 and nargs the number of fields after the sixth.
NoLine == [form |-> "none", stream |-> "", event |-> "", sid |-> 0, nargs |-> 0]

Line(stream, event, sid, nargs) ==
    [form |-> "full", stream |-> stream, event |-> event, sid |-> sid, nargs |-> nargs]

Looping == [pc |-> "loop", read |-> 0, last |-> NoLine]

\* The dispatch loop is running: the process has not exited.
running == main.pc = "loop"

\* tx{} and session{}: Go's zero values.
EmptyTx ==
    [msgid |-> 0, mailFrom |-> <<>>, rcptTo |-> <<>>, message |-> <<>>,
     action |-> "", response |-> ""]

NewSession(sid) == [id |-> sid, tx |-> EmptyTx]

\* A goroutine started by  go rspamdQuery(s, token): s is the session pointer.
NewTask(obj, token) ==
    [s |-> obj, token |-> token, pc |-> "query", queue |-> <<>>, cont |-> "done",
     rr |-> BaseVerdict, failed |-> FALSE, out |-> <<>>, starts |-> 1]

\* go rspamdQuery(s, token) in dataLine: nothing keeps a second goroutine from
\* being started with a token; starts counts the goroutines started with it,
\* and the record follows the one started last.
Started(obj, token) ==
    IF token \in DOMAIN tasks
    THEN [NewTask(obj, token) EXCEPT !.starts = tasks[token].starts + 1]
    ELSE NewTask(obj, token)

\* produceOutput without the test of the version.
produceOutput_NoSwap(ver, msgType, sessionId, token, payload) ==
    <<msgType, sessionId, token, payload>>

\* produceOutput: the line handed to the output channel, ver being the value
\* of the global version when it is called.
produceOutput(ver, msgType, sessionId, token, payload) ==
    IF StrLess(ver, V05)
    THEN <<msgType, token, sessionId, payload>>
    ELSE <<msgType, sessionId, token, payload>>

\* dataCommit: the response text it leaves in the transaction.
CommitResponse(tx) ==
    IF tx.response # "" THEN tx.response
    ELSE CASE tx.action = "tempfail" -> "server internal error"
           [] tx.action = "reject" -> "message rejected"
           [] tx.action = "soft reject" -> "try again later"
           [] OTHER -> tx.response

\* dataCommit without its tempfail case.
CommitPayload_NoTempfail(tx) ==
    CASE tx.action = "reject" -> <<"reject", "550", CommitResponse(tx)>>
      [] tx.action = "soft reject" -> <<"reject", "451", CommitResponse(tx)>>
      [] OTHER -> <<"proceed">>

\* dataCommit with the codes of reject and soft reject exchanged.
CommitPayload_CodesSwapped(tx) ==
    CASE tx.action = "tempfail" -> <<"reject", "421", CommitResponse(tx)>>
      [] tx.action = "reject" -> <<"reject", "451", CommitResponse(tx)>>
      [] tx.action = "soft reject" -> <<"reject", "550", CommitResponse(tx)>>
      [] OTHER -> <<"proceed">>

\* dataCommit: the payload of its result line, "reject|<code> <text>" or "proceed".
CommitPayload(tx) ==
    CASE tx.action = "tempfail" -> <<"reject", "421", CommitResponse(tx)>>
      [] tx.action = "reject" -> <<"reject", "550", CommitResponse(tx)>>
      [] tx.action = "soft reject" -> <<"reject", "451", CommitResponse(tx)>>
      [] OTHER -> <<"proceed">>

\* dataLine taking the first field after the token for the line.
RawLine_FirstField(params) == params[2]

\* dataLine: the raw line rejoined from the fields after the token.
RawLine(params) == Join(Tail(params), <<PIPE>>)

\* dataLine: the stored form of a content line.
Unescape(line) == TrimPrefix(line, <<DOT>>)

Init ==
    /\ sessions = <<>>
    /\ heap = <<>>
    /\ version = <<>>
    /\ tasks = <<>>
    /\ sink = <<>>
    /\ stdout = <<>>
    /\ main = Looping
    /\ daemon = [sid \in SessionIds |-> [phase |-> "off", ntx |-> 0, sent |-> <<>>]]

\* The daemon announces one version for as long as it runs.
DaemonVersions == IF version = <<>> THEN Versions ELSE {version}

\* A dispatch loop that runs the analysis itself: it reads the next line only
\* when no goroutine is at work.
ReadLine_AfterAnalysis(v, stream, event, sid, nargs) ==
    /\ running
    /\ \A t \in DOMAIN tasks : tasks[t].pc = "done"
    /\ version' = v
    /\ main' = [main EXCEPT !.last = Line(stream, event, sid, nargs)]

\* main: one ingress line read, its version field stored.
ReadLine(v, stream, event, sid, nargs) ==
    /\ running
    /\ version' = v
    /\ main' = [main EXCEPT !.last = Line(stream, event, sid, nargs)]

\* ---------------------------------------------------------- dispatch loop
\* report|v|ts|smtp-in|link-connect|sid|rdns|fcrdns|src|dest
LinkConnect(sid, v) ==
    /\ ReadLine(v, "report", "link-connect", sid, 4)
    /\ daemon[sid].phase = "off"
    /\ heap' = Append(heap, NewSession(sid))
    /\ sessions' = [x \in DOMAIN sessions \cup {sid} |->
                        IF x = sid THEN Len(heap) + 1 ELSE sessions[x]]
    /\ daemon' = [daemon EXCEPT ![sid].phase = "on"]
    /\ UNCHANGED <<tasks, sink, stdout>>

\* A disconnect handler that leaves the registry alone.
LinkDisconnect_NoDelete(sid, v) ==
    /\ ReadLine(v, "report", "link-disconnect", sid, 0)
    /\ daemon[sid].phase = "on"
    /\ sid \in DOMAIN sessions
    /\ daemon' = [daemon EXCEPT ![sid].phase = "gone"]
    /\ UNCHANGED <<sessions, heap, tasks, sink, stdout>>

\* report|v|ts|smtp-in|link-disconnect|sid
LinkDisconnect(sid, v) ==
    /\ ReadLine(v, "report", "link-disconnect", sid, 0)
    /\ daemon[sid].phase = "on"
    /\ sid \in DOMAIN sessions
    /\ sessions' = [x \in DOMAIN sessions \ {sid} |-> sessions[x]]
    /\ daemon' = [daemon EXCEPT ![sid].phase = "gone"]
    /\ UNCHANGED <<heap, tasks, sink, stdout>>

\* report|v|ts|smtp-in|tx-begin|sid|msgid
TxBegin(sid, v) ==
    /\ ReadLine(v, "report", "tx-begin", sid, 1)
    /\ daemon[sid].phase = "on"
    /\ daemon[sid].ntx < MaxTx
    /\ sid \in DOMAIN sessions
    /\ heap' = [heap EXCEPT ![sessions[sid]].tx.msgid = DataToken(sid, daemon[sid].ntx)]
    /\ daemon' = [daemon EXCEPT ![sid].phase = "tx", ![sid].sent = <<>>]
    /\ UNCHANGED <<sessions, tasks, sink, stdout>>

\* report|v|ts|smtp-in|tx-reset|sid|msgid
TxReset(sid, v) ==
    /\ ReadLine(v, "report", "tx-reset", sid, 1)
    /\ daemon[sid].phase = "committed"
    /\ sid \in DOMAIN sessions
    /\ heap' = [heap EXCEPT ![sessions[sid]].tx = EmptyTx]
    /\ daemon' = [daemon EXCEPT ![sid].phase = "on", ![sid].ntx = @ + 1]
    /\ UNCHANGED <<sessions, tasks, sink, stdout>>

\* A data-line handler that starts the analysis on every line it receives.
DataLine_StartPerLine(sid, v, payload) ==
    /\ ReadLine(v, "filter", "data-line", sid, 1 + Len(Split(payload, PIPE)))
    /\ daemon[sid].phase = "tx"
    /\ sid \in DOMAIN sessions
    /\ LET token == DataToken(sid, daemon[sid].ntx)
           params == <<token>> \o Split(payload, PIPE)
           line == RawLine(params)
           obj == sessions[sid]
       IN  /\ tasks' = [t \in DOMAIN tasks \cup {token} |->
                           IF t = token THEN Started(obj, token) ELSE tasks[t]]
           /\ IF line = Terminator
              THEN /\ daemon' = [daemon EXCEPT ![sid].phase = "wait"]
                   /\ UNCHANGED heap
              ELSE /\ Len(daemon[sid].sent) < MaxBody
                   /\ heap' = [heap EXCEPT ![obj].tx.message = Append(@, Unescape(line))]
                   /\ daemon' = [daemon EXCEPT ![sid].sent = Append(@, payload)]
    /\ UNCHANGED <<sessions, sink, stdout>>

\* filter|v|ts|smtp-in|data-line|sid|token|payload, the payload being content
\* or the end-of-data marker: main splits the whole line on "|", so the
\* handler receives the token and the pieces of the payload.
DataLine(sid, v, payload) ==
    /\ ReadLine(v, "filter", "data-line", sid, 1 + Len(Split(payload, PIPE)))
    /\ daemon[sid].phase = "tx"
    /\ sid \in DOMAIN sessions
    /\ LET token == DataToken(sid, daemon[sid].ntx)
           params == <<token>> \o Split(payload, PIPE)
           line == RawLine(params)
           obj == sessions[sid]
       IN  IF line = Terminator
           THEN /\ tasks' = [t \in DOMAIN tasks \cup {token} |->
                                IF t = token THEN Started(obj, token) ELSE tasks[t]]
                /\ daemon' = [daemon EXCEPT ![sid].phase = "wait"]
                /\ UNCHANGED heap
           ELSE /\ Len(daemon[sid].sent) < MaxBody
                /\ heap' = [heap EXCEPT ![obj].tx.message = Append(@, Unescape(line))]
                /\ daemon' = [daemon EXCEPT ![sid].sent = Append(@, payload)]
                /\ UNCHANGED tasks
    /\ UNCHANGED <<sessions, sink, stdout>>

\* filter|v|ts|smtp-in|commit|sid|token|...: the result line is handed to the
\* output goroutine, which must be free to receive it.
DataCommit(sid, v) ==
    /\ ReadLine(v, "filter", "commit", sid, 2)
    /\ daemon[sid].phase = "ready"
    /\ sid \in DOMAIN sessions
    /\ sink = <<>>
    /\ LET obj == sessions[sid]
           token == CommitToken(sid, daemon[sid].ntx)
       IN  /\ heap' = [heap EXCEPT ![obj].tx.response = CommitResponse(heap[obj].tx)]
           /\ sink' = <<produceOutput(v, "filter-result", heap[obj].id, token,
                                      CommitPayload(heap[obj].tx))>>
    /\ daemon' = [daemon EXCEPT ![sid].phase = "committing"]
    /\ UNCHANGED <<sessions, tasks, stdout>>

\* main: no more lines to scan, os.Exit(0).
Eof ==
    /\ running
    /\ main' = [main EXCEPT !.pc = "exited"]
    /\ UNCHANGED <<sessions, heap, version, tasks, sink, stdout, daemon>>

\* ------------------------------------------------- the rspamdQuery goroutine
\* A goroutine is at "query" until the request is answered or has failed, at
\* "tempfail" on entering rspamdTempFail, at "flush" on entering
\* flushMessage, at "replay" on entering the replay loop, at "emit" while it
\* has lines to hand over (then it goes on at cont), and at "done" when it
\* has returned.
\*
\* The DialContext closure calls net.ResolveUnixAddr with the constant
\* network "unix", for which the net package returns no error: an unreachable
\* socket fails in net.DialUnix, which client.Do reports (TaskDoFails).
Live(t) == running /\ t \in DOMAIN tasks

\* rspamdQuery up to a failure: rspamdTempFail is entered.
TaskFails(t) ==
    /\ Live(t)
    /\ tasks[t].pc = "query"
    /\ tasks' = [tasks EXCEPT ![t].pc = "tempfail", ![t].cont = "done", ![t].failed = TRUE]
    /\ UNCHANGED <<sessions, heap, version, sink, stdout, main, daemon>>

\* http.NewRequest returns an error.
TaskRequestFails(t) == TaskFails(t)
\* client.Do returns an error.
TaskDoFails(t) == TaskFails(t)
\* The JSON decoder returns an error.
TaskDecodeFails(t) == TaskFails(t)

\* rspamdTempFail: the two assignments.
TaskTempFail(t) ==
    /\ Live(t)
    /\ tasks[t].pc = "tempfail"
    /\ heap' = [heap EXCEPT ![tasks[t].s].tx.action = "tempfail",
                            ![tasks[t].s].tx.response = "server internal error"]
    /\ tasks' = [tasks EXCEPT ![t].pc = "flush"]
    /\ UNCHANGED <<sessions, version, sink, stdout, main, daemon>>

\* flushMessage: the range over s.tx.message starts.
TaskFlush(t) ==
    /\ Live(t)
    /\ tasks[t].pc = "flush"
    /\ tasks' = [tasks EXCEPT ![t].pc = "emit",
                              ![t].queue = flushMessage(heap[tasks[t].s].tx.message)]
    /\ UNCHANGED <<sessions, heap, version, sink, stdout, main, daemon>>

\* The switch on rr.Action storing the action alone, as the earlier revision did.
VerdictTx_ActionOnly(tx, rr) ==
    IF rr.Action \in {"reject", "soft reject"}
    THEN [tx EXCEPT !.action = rr.Action]
    ELSE tx

\* rspamdQuery, the switch on rr.Action: what a reject-class verdict stores.
VerdictTx(tx, rr) ==
    IF rr.Action \in {"reject", "soft reject"}
    THEN [tx EXCEPT !.action = rr.Action, !.response = rr.SMTP]
    ELSE tx

\* The response is decoded: a reject-class verdict is stored in the
\* transaction and the message flushed; any other starts the rewritten block
\* with the verdict's headers.
TaskVerdict(t, rr, order) ==
    /\ Live(t)
    /\ tasks[t].pc = "query"
    /\ heap' = [heap EXCEPT ![tasks[t].s].tx = VerdictTx(@, rr)]
    /\ IF rr.Action \in {"reject", "soft reject"}
       THEN tasks' = [tasks EXCEPT ![t].pc = "flush", ![t].cont = "done", ![t].rr = rr]
       ELSE LET lines == DkimLines(rr.DKIMSig) \o SpamLines(rr) \o AddLines(rr, order)
            IN  tasks' = [tasks EXCEPT ![t].pc = IF lines = <<>> THEN "replay" ELSE "emit",
                                       ![t].cont = "replay",
                                       ![t].queue = lines,
                                       ![t].rr = rr]
    /\ UNCHANGED <<sessions, version, sink, stdout, main, daemon>>

\* The replay loop: the range over s.tx.message starts.
TaskReplay(t) ==
    /\ Live(t)
    /\ tasks[t].pc = "replay"
    /\ tasks' = [tasks EXCEPT ![t].pc = "emit", ![t].cont = "done",
                              ![t].queue = Replay(heap[tasks[t].s].tx.message, tasks[t].rr)]
    /\ UNCHANGED <<sessions, heap, version, sink, stdout, main, daemon>>

\* produceOutput handing over its line without waiting for the receiver.
TaskEmit_NoRendezvous(t) ==
    /\ Live(t)
    /\ tasks[t].pc = "emit"
    /\ sink' = <<produceOutput(version, "filter-dataline", heap[tasks[t].s].id, t,
                               Head(tasks[t].queue))>>
    /\ tasks' = [tasks EXCEPT ![t].queue = Tail(@),
                              ![t].pc = IF Len(tasks[t].queue) = 1 THEN tasks[t].cont ELSE "emit",
                              ![t].cont = IF Len(tasks[t].queue) = 1 THEN "done" ELSE @]
    /\ UNCHANGED <<sessions, heap, version, stdout, main, daemon>>

\* produceOutput from a goroutine, its first part: the line is laid out by the
\* value of version read at that moment (out holds it until it is sent).  The
\* read is not synchronised with the write in main; the versions the daemon
\* announces are strings of one length, so the read yields the value before
\* or after a concurrent write, which is the order of the two steps here.
TaskFormat(t) ==
    /\ Live(t)
    /\ tasks[t].pc = "emit"
    /\ tasks[t].out = <<>>
    /\ tasks' = [tasks EXCEPT ![t].out =
                    <<produceOutput(version, "filter-dataline", heap[tasks[t].s].id, t,
                                    Head(tasks[t].queue))>>]
    /\ UNCHANGED <<sessions, heap, version, sink, stdout, main, daemon>>

\* produceOutput from a goroutine, its second part: the send on the channel.
TaskSend(t) ==
    /\ Live(t)
    /\ tasks[t].pc = "emit"
    /\ tasks[t].out # <<>>
    /\ sink = <<>>
    /\ sink' = tasks[t].out
    /\ tasks' = [tasks EXCEPT ![t].queue = Tail(@),
                              ![t].out = <<>>,
                              ![t].pc = IF Len(tasks[t].queue) = 1 THEN tasks[t].cont ELSE "emit",
                              ![t].cont = IF Len(tasks[t].queue) = 1 THEN "done" ELSE @]
    /\ UNCHANGED <<sessions, heap, version, stdout, main, daemon>>

\* produceOutput from a goroutine, both parts in one step: what TaskFormat and
\* TaskSend amount to while the daemon announces one version.
\* The send on the unbuffered channel completes
\* when the output goroutine receives the line.
TaskEmit(t) ==
    /\ Live(t)
    /\ tasks[t].pc = "emit"
    /\ sink = <<>>
    /\ sink' = <<produceOutput(version, "filter-dataline", heap[tasks[t].s].id, t,
                               Head(tasks[t].queue))>>
    /\ tasks' = [tasks EXCEPT ![t].queue = Tail(@),
                              ![t].pc = IF Len(tasks[t].queue) = 1 THEN tasks[t].cont ELSE "emit",
                              ![t].cont = IF Len(tasks[t].queue) = 1 THEN "done" ELSE @]
    /\ UNCHANGED <<sessions, heap, version, stdout, main, daemon>>

\* ------------------------------------------------------ the output goroutine
\* What the daemon makes of a printed line: the terminator of a block it
\* waits for lets it commit, the result of a commit ends the transaction.
Observe(d, line) ==
    [sid \in SessionIds |->
        IF sid \notin {line[2], line[3]} THEN d[sid]
        ELSE IF line[1] = "filter-dataline" /\ d[sid].phase = "wait"
             THEN (IF line[4] = Terminator THEN [d[sid] EXCEPT !.phase = "ready"] ELSE d[sid])
        ELSE IF line[1] = "filter-result" /\ d[sid].phase = "committing"
             THEN [d[sid] EXCEPT !.phase = "committed"]
        ELSE d[sid]]

\* The output goroutine:  for line := range outputChannel { fmt.Println(line) }
PrintLine ==
    /\ running
    /\ sink # <<>>
    /\ stdout' = Append(stdout, sink[1])
    /\ sink' = <<>>
    /\ daemon' = Observe(daemon, sink[1])
    /\ UNCHANGED <<sessions, heap, version, tasks, main>>

\* ----------------------------------------------------------- specifications
\* Spec: the daemon serves one connection, with every input of the system
\* model, and may close the filter's input at any time.
Next ==
    \/ \E sid \in {1}, v \in DaemonVersions : LinkConnect(sid, v)
    \/ \E sid \in {1}, v \in DaemonVersions : LinkDisconnect(sid, v)
    \/ \E sid \in {1}, v \in DaemonVersions : TxBegin(sid, v)
    \/ \E sid \in {1}, v \in DaemonVersions : TxReset(sid, v)
    \/ \E sid \in {1}, v \in DaemonVersions, payload \in Payloads \cup {Terminator} :
            DataLine(sid, v, payload)
    \/ \E sid \in {1}, v \in DaemonVersions : DataCommit(sid, v)
    \/ \E t \in DOMAIN tasks : TaskRequestFails(t)
    \/ \E t \in DOMAIN tasks : TaskDoFails(t)
    \/ \E t \in DOMAIN tasks : TaskDecodeFails(t)
    \/ \E t \in DOMAIN tasks : TaskTempFail(t)
    \/ \E t \in DOMAIN tasks : TaskFlush(t)
    \/ \E t \in DOMAIN tasks, rr \in Verdicts : \E order \in Orders(rr.Add) :
            TaskVerdict(t, rr, order)
    \/ \E t \in DOMAIN tasks : TaskReplay(t)
    \/ \E t \in DOMAIN tasks : TaskEmit(t)
    \/ PrintLine
    \/ Eof

Spec == Init /\ [][Next]_vars

\* SpecTwo: two connections at once, their goroutines running concurrently.
PayloadsTwo == {<<DOT, DOT>>}

VerdictsTwo ==
    {[BaseVerdict EXCEPT !.Action = "reject", !.SMTP = "spam detected"],
     [BaseVerdict EXCEPT !.Action = "add header", !.Score = 12300, !.RequiredScore = 6000]}

NextTwo ==
    \/ \E sid \in SessionIds, v \in DaemonVersions : LinkConnect(sid, v)
    \/ \E sid \in SessionIds, v \in DaemonVersions : LinkDisconnect(sid, v)
    \/ \E sid \in SessionIds, v \in DaemonVersions : TxBegin(sid, v)
    \/ \E sid \in SessionIds, v \in DaemonVersions : TxReset(sid, v)
    \/ \E sid \in SessionIds, v \in DaemonVersions, payload \in PayloadsTwo \cup {Terminator} :
            DataLine(sid, v, payload)
    \/ \E sid \in SessionIds, v \in DaemonVersions : DataCommit(sid, v)
    \/ \E t \in DOMAIN tasks : TaskRequestFails(t)
    \/ \E t \in DOMAIN tasks : TaskDoFails(t)
    \/ \E t \in DOMAIN tasks : TaskDecodeFails(t)
    \/ \E t \in DOMAIN tasks : TaskTempFail(t)
    \/ \E t \in DOMAIN tasks : TaskFlush(t)
    \/ \E t \in DOMAIN tasks, rr \in VerdictsTwo : \E order \in Orders(rr.Add) :
            TaskVerdict(t, rr, order)
    \/ \E t \in DOMAIN tasks : TaskReplay(t)
    \/ \E t \in DOMAIN tasks : TaskEmit(t)
    \/ PrintLine

SpecTwo == Init /\ [][NextTwo]_vars

\* Every sequence of at most n elements of P.
RECURSIVE Seqs(_, _)
Seqs(P, n) ==
    IF n = 0 THEN {<<>>}
    ELSE Seqs(P, n - 1) \cup {Append(q, x) : q \in Seqs(P, n - 1), x \in P}

\* What dataLine has stored once the daemon has sent these content lines.
RECURSIVE Stored(_)
Stored(sent) ==
    IF sent = <<>> THEN <<>>
    ELSE <<Unescape(RawLine(<<0>> \o Split(Head(sent), PIPE)))>> \o Stored(Tail(sent))

\* The state in which connection 1 has sent one of these bodies and the
\* end-of-data marker: the goroutine of the message has just been started.
InitQuery(bodies) ==
    /\ daemon \in {[sid \in SessionIds |->
                        IF sid = 1 THEN [phase |-> "wait", ntx |-> 0, sent |-> b]
                        ELSE [phase |-> "off", ntx |-> 0, sent |-> <<>>]] : b \in bodies}
    /\ sessions = <<1>>
    /\ heap = << [id |-> 1,
                  tx |-> [EmptyTx EXCEPT !.msgid = DataToken(1, 0),
                                         !.message = Stored(daemon[1].sent)]] >>
    /\ version \in Versions
    /\ tasks = [t \in {DataToken(1, 0)} |-> NewTask(1, t)]
    /\ sink = <<>>
    /\ stdout = <<>>
    /\ main = Looping

\* SpecReplay: the goroutine of one message, over header blocks and bodies and
\* over verdicts that remove headers and rewrite the subject.
XFoo ==
    <<"X", "-", "F", "o", "o">>
XBar ==
    <<"X", "-", "B", "a", "r">>
Subject ==
    <<"S", "u", "b", "j", "e", "c", "t">>
ReplayPayloads ==
    {XFoo \o <<COLON, SP, "a">>, <<TAB, "b">>, <<SP, "c">>, XBar \o <<COLON, SP, "c">>,
     <<>>, SubjectPrefix \o <<"s">>}

ReplayVerdicts ==
    {[BaseVerdict EXCEPT !.Remove = {XFoo}],
     [BaseVerdict EXCEPT !.Action = "rewrite subject", !.Subject = <<"x">>],
     [BaseVerdict EXCEPT !.Action = "rewrite subject", !.Subject = <<"x">>,
                         !.Remove = {XFoo}],
     [BaseVerdict EXCEPT !.Action = "rewrite subject", !.Subject = <<"x">>,
                         !.Remove = {XFoo, Subject}]}

InitReplay == InitQuery(Seqs(ReplayPayloads, MaxReplay))

NextReplay ==
    \/ \E t \in DOMAIN tasks : TaskRequestFails(t)
    \/ \E t \in DOMAIN tasks : TaskDoFails(t)
    \/ \E t \in DOMAIN tasks : TaskDecodeFails(t)
    \/ \E t \in DOMAIN tasks : TaskTempFail(t)
    \/ \E t \in DOMAIN tasks : TaskFlush(t)
    \/ \E t \in DOMAIN tasks, rr \in ReplayVerdicts : \E order \in Orders(rr.Add) :
            TaskVerdict(t, rr, order)
    \/ \E t \in DOMAIN tasks : TaskReplay(t)
    \/ \E t \in DOMAIN tasks : TaskEmit(t)
    \/ PrintLine

SpecReplay == InitReplay /\ [][NextReplay]_vars

\* SpecDots: the goroutine of one message, over every line of dots and
\* letters and over verdicts whose header values span several lines.
DotPayloads == Seqs({DOT, "a"}, MaxLineLen) \ {Terminator}

DotVerdicts ==
    {BaseVerdict,
     [BaseVerdict EXCEPT !.Action = "reject"],
     [BaseVerdict EXCEPT !.Action = "rewrite subject", !.Subject = <<DOT>>],
     [BaseVerdict EXCEPT !.DKIMSig = [kind |-> "string", v |-> <<"v", NL, TAB, "b">>]],
     [BaseVerdict EXCEPT !.DKIMSig = [kind |-> "string", v |-> <<"v", NL, DOT>>]],
     [BaseVerdict EXCEPT !.DKIMSig =
         [kind |-> "list", v |-> << [ok |-> TRUE, v |-> <<"v">>], [ok |-> FALSE, v |-> <<>>],
                                    [ok |-> TRUE, v |-> <<>>] >>]],
     [BaseVerdict EXCEPT !.Add = {[h |-> XFoo, kind |-> "string", v |-> <<"a", NL, DOT, "b">>]}],
     [BaseVerdict EXCEPT !.Add = {[h |-> XFoo, kind |-> "string", v |-> <<"a">>],
                                  [h |-> ArcSeal, kind |-> "object", v |-> <<"s">>]}]}

InitDots == InitQuery(Seqs(DotPayloads, MaxBody))

NextDots ==
    \/ \E t \in DOMAIN tasks : TaskRequestFails(t)
    \/ \E t \in DOMAIN tasks : TaskDoFails(t)
    \/ \E t \in DOMAIN tasks : TaskDecodeFails(t)
    \/ \E t \in DOMAIN tasks : TaskTempFail(t)
    \/ \E t \in DOMAIN tasks : TaskFlush(t)
    \/ \E t \in DOMAIN tasks, rr \in DotVerdicts : \E order \in Orders(rr.Add) :
            TaskVerdict(t, rr, order)
    \/ \E t \in DOMAIN tasks : TaskReplay(t)
    \/ \E t \in DOMAIN tasks : TaskEmit(t)
    \/ PrintLine

SpecDots == InitDots /\ [][NextDots]_vars

\* SpecSymbols: the goroutine of one message, over add header verdicts with
\* symbol maps of several sizes and name lengths.
RECURSIVE Rep(_, _)
Rep(c, n) == IF n = 0 THEN <<>> ELSE <<c>> \o Rep(c, n - 1)

BayesSpam ==
    <<"B", "A", "Y", "E", "S", "_", "S", "P", "A", "M">>
HtmlShortLink ==
    <<"H", "T", "M", "L", "_", "S", "H", "O", "R", "T", "_", "L", "I", "N", "K">>

\* A symbol map: every name with its score in thousandths.
SymbolMap(names, score) == [n \in names |-> score]

SymbolVerdict(symbols) ==
    [BaseVerdict EXCEPT !.Action = "add header", !.Score = 12300, !.RequiredScore = 6000,
                        !.Symbols = symbols]

SymbolVerdicts ==
    {SymbolVerdict([n \in {BayesSpam, HtmlShortLink} |->
                        IF n = BayesSpam THEN 4000 ELSE 500]),
     SymbolVerdict(SymbolMap({Rep("A", 25), Rep("B", 24)}, 1000)),
     SymbolVerdict(SymbolMap({Rep("A", 25), Rep("B", 25), Rep("C", 3)}, 1000)),
     SymbolVerdict(SymbolMap({Rep("A", 56)}, 1000)),
     SymbolVerdict(SymbolMap({Rep("A", 70), <<"B">>}, 1000)),
     SymbolVerdict(<<>>),
     [SymbolVerdict(<<>>) EXCEPT !.Score = 7250, !.RequiredScore = 5000],
     [SymbolVerdict(<<>>) EXCEPT !.Score = 15000, !.RequiredScore = 15125]}

SymbolPayloads == {<<"a">>, <<>>}

InitSymbols == InitQuery(Seqs(SymbolPayloads, MaxBody))

NextSymbols ==
    \/ \E t \in DOMAIN tasks : TaskRequestFails(t)
    \/ \E t \in DOMAIN tasks : TaskDoFails(t)
    \/ \E t \in DOMAIN tasks : TaskDecodeFails(t)
    \/ \E t \in DOMAIN tasks : TaskTempFail(t)
    \/ \E t \in DOMAIN tasks : TaskFlush(t)
    \/ \E t \in DOMAIN tasks, rr \in SymbolVerdicts : \E order \in Orders(rr.Add) :
            TaskVerdict(t, rr, order)
    \/ \E t \in DOMAIN tasks : TaskReplay(t)
    \/ \E t \in DOMAIN tasks : TaskEmit(t)
    \/ PrintLine

SpecSymbols == InitSymbols /\ [][NextSymbols]_vars

\* SpecHeaders: the goroutine of one message, over verdicts with DKIM
\* signatures of every shape and with add-headers of every kind.
AddString(h, v) == [h |-> h, kind |-> "string", v |-> v]
AddObject(h, v) == [h |-> h, kind |-> "object", v |-> v]

HeaderVerdicts ==
    {[BaseVerdict EXCEPT !.Add =
         {AddString(XFoo, <<"a">>), AddString(XBar, <<"b">>),
          AddObject(AuthenticationResults, <<"r">>), AddObject(ArcSeal, <<"s">>),
          AddObject(ArcMessageSignature, <<"m">>)}],
     [BaseVerdict EXCEPT !.Add =
         {AddString(XFoo, <<"a">>), AddObject(ArcAuthenticationResults, <<"q">>),
          AddObject(XBar, <<"z">>), AddObject(AuthenticationResults, <<>>),
          [h |-> ArcSeal, kind |-> "objectNoValue", v |-> <<>>],
          [h |-> Subject, kind |-> "other", v |-> <<>>]}],
     [BaseVerdict EXCEPT !.Action = "add header", !.Score = 12300, !.RequiredScore = 6000,
         !.DKIMSig = [kind |-> "list",
                      v |-> << [ok |-> TRUE, v |-> <<"v", NL, TAB, "b">>],
                               [ok |-> FALSE, v |-> <<>>], [ok |-> TRUE, v |-> <<>>],
                               [ok |-> TRUE, v |-> <<"w">>] >>],
         !.Add = {AddString(XFoo, <<"a">>), AddObject(ArcSeal, <<"s">>)}],
     [BaseVerdict EXCEPT !.DKIMSig = [kind |-> "string", v |-> <<"v", NL, TAB, "b">>]],
     [BaseVerdict EXCEPT !.DKIMSig = [kind |-> "string", v |-> <<>>]],
     [BaseVerdict EXCEPT !.DKIMSig = [kind |-> "list", v |-> <<>>]],
     BaseVerdict}

InitHeaders == InitQuery(Seqs(SymbolPayloads, MaxBody))

NextHeaders ==
    \/ \E t \in DOMAIN tasks : TaskRequestFails(t)
    \/ \E t \in DOMAIN tasks : TaskDoFails(t)
    \/ \E t \in DOMAIN tasks : TaskDecodeFails(t)
    \/ \E t \in DOMAIN tasks : TaskTempFail(t)
    \/ \E t \in DOMAIN tasks : TaskFlush(t)
    \/ \E t \in DOMAIN tasks, rr \in HeaderVerdicts : \E order \in Orders(rr.Add) :
            TaskVerdict(t, rr, order)
    \/ \E t \in DOMAIN tasks : TaskReplay(t)
    \/ \E t \in DOMAIN tasks : TaskEmit(t)
    \/ PrintLine

SpecHeaders == InitHeaders /\ [][NextHeaders]_vars

\* SpecVersions: the version field may differ from one ingress line to the
\* next; connection 1 runs a transaction while connection 2 comes and goes,
\* and the two parts of produceOutput are separate steps.
PayloadsVersions == {<<"a">>}

VerdictsVersions == {BaseVerdict, [BaseVerdict EXCEPT !.Action = "reject"]}

NextVersions ==
    \/ \E sid \in SessionIds, v \in Versions : LinkConnect(sid, v)
    \/ \E sid \in SessionIds, v \in Versions : LinkDisconnect(sid, v)
    \/ \E sid \in {1}, v \in Versions : TxBegin(sid, v)
    \/ \E sid \in {1}, v \in Versions : TxReset(sid, v)
    \/ \E sid \in {1}, v \in Versions, payload \in PayloadsVersions \cup {Terminator} :
            DataLine(sid, v, payload)
    \/ \E sid \in {1}, v \in Versions : DataCommit(sid, v)
    \/ \E t \in DOMAIN tasks : TaskRequestFails(t)
    \/ \E t \in DOMAIN tasks : TaskDoFails(t)
    \/ \E t \in DOMAIN tasks : TaskDecodeFails(t)
    \/ \E t \in DOMAIN tasks : TaskTempFail(t)
    \/ \E t \in DOMAIN tasks : TaskFlush(t)
    \/ \E t \in DOMAIN tasks, rr \in VerdictsVersions : \E order \in Orders(rr.Add) :
            TaskVerdict(t, rr, order)
    \/ \E t \in DOMAIN tasks : TaskReplay(t)
    \/ \E t \in DOMAIN tasks : TaskFormat(t)
    \/ \E t \in DOMAIN tasks : TaskSend(t)
    \/ PrintLine

SpecVersions == Init /\ [][NextVersions]_vars

\* SpecStartup: the process from its start, through skipConfig and
\* filterInit, into the dispatch loop serving one connection.
reporters ==
    {"link-connect", "link-disconnect", "link-greeting", "link-identify", "link-auth",
     "tx-reset", "tx-begin", "tx-mail", "tx-rcpt"}

filters == {"data-line", "commit"}

ConfigReady == "config|ready"

\* Lines the daemon may send while the filter starts: configuration, the end
\* of it, and an event sent too early.
StartupLines ==
    {ConfigReady, "config|smtp-session-timeout|300s",
     "report|0.7|0|smtp-in|link-connect|1|localhost|pass|a|b"}

InitStartup ==
    /\ sessions = <<>>
    /\ heap = <<>>
    /\ version = <<>>
    /\ tasks = <<>>
    /\ sink = <<>>
    /\ stdout = <<>>
    /\ main = [pc |-> "skip", read |-> 0, last |-> NoLine]
    /\ daemon = [sid \in SessionIds |-> [phase |-> "off", ntx |-> 0, sent |-> <<>>]]

\* skipConfig: one line read, and left behind unless it is config|ready.
SkipConfig(line) ==
    /\ main.pc = "skip"
    /\ line # ConfigReady => main.read < MaxSkip
    /\ main' = [main EXCEPT !.read = @ + 1,
                            !.pc = IF line = ConfigReady THEN "register" ELSE "skip"]
    /\ UNCHANGED <<sessions, heap, version, tasks, sink, stdout, daemon>>

\* skipConfig: no more lines to scan, os.Exit(0).
SkipConfigEof ==
    /\ main.pc = "skip"
    /\ main' = [main EXCEPT !.pc = "exited"]
    /\ UNCHANGED <<sessions, heap, version, tasks, sink, stdout, daemon>>

\* The two maps are ranged over in an order the runtime chooses: the orders
\* taken here are the rotations of one listing and their reversals.
ReporterList ==
    <<"link-connect", "link-disconnect", "link-greeting", "link-identify", "link-auth",
      "tx-reset", "tx-begin", "tx-mail", "tx-rcpt">>

FilterList == <<"data-line", "commit">>

Rotations(list) ==
    {[i \in 1..Len(list) |-> list[((i + n - 1) % Len(list)) + 1]] : n \in 0..(Len(list) - 1)}

Reversed(list) == [i \in 1..Len(list) |-> list[Len(list) + 1 - i]]

RangeOrders(list) == Rotations(list) \cup {Reversed(o) : o \in Rotations(list)}

\* filterInit printing register|ready after the reporters alone.
FilterInit_NoFilters(ro, fo) ==
    /\ main.pc = "register"
    /\ stdout' = stdout
                 \o [i \in 1..Len(ro) |-> <<"register", "report", "smtp-in", ro[i]>>]
                 \o << <<"register", "ready">> >>
    /\ main' = [main EXCEPT !.pc = "loop"]
    /\ UNCHANGED <<sessions, heap, version, tasks, sink, daemon>>

\* filterInit: a line for every key of reporters, a line for every key of
\* filters, then register|ready; main then makes the output channel, starts
\* the output goroutine and enters the dispatch loop.
FilterInit(ro, fo) ==
    /\ main.pc = "register"
    /\ stdout' = stdout
                 \o [i \in 1..Len(ro) |-> <<"register", "report", "smtp-in", ro[i]>>]
                 \o [i \in 1..Len(fo) |-> <<"register", "filter", "smtp-in", fo[i]>>]
                 \o << <<"register", "ready">> >>
    /\ main' = [main EXCEPT !.pc = "loop"]
    /\ UNCHANGED <<sessions, heap, version, tasks, sink, daemon>>

NextStartup ==
    \/ \E line \in StartupLines : SkipConfig(line)
    \/ SkipConfigEof
    \/ \E ro \in RangeOrders(ReporterList), fo \in RangeOrders(FilterList) : FilterInit(ro, fo)
    \/ \E sid \in {1}, v \in DaemonVersions : LinkConnect(sid, v)
    \/ \E sid \in {1}, v \in DaemonVersions : LinkDisconnect(sid, v)
    \/ \E sid \in {1}, v \in DaemonVersions : TxBegin(sid, v)
    \/ Eof

SpecStartup == InitStartup /\ [][NextStartup]_vars

\* SpecProtocol: one connection served as in Spec, and ingress lines that
\* the dispatch loop refuses: too few fields, an unknown stream, an event
\* without a handler in the stream's map, a session id that is not
\* registered, an argument count the handler rejects.
Streams == {"report", "filter"}

EventNames == reporters \cup filters \cup {"bogus"}

ArgCounts == 0..4

\* The len(params) test at the head of each handler.
ArgsOk(event, nargs) ==
    CASE event = "link-connect" -> nargs = 4
      [] event = "link-disconnect" -> nargs = 0
      [] event = "link-greeting" -> nargs = 1
      [] event = "link-identify" -> nargs = 2
      [] event = "link-auth" -> nargs = 2
      [] event = "tx-reset" -> nargs = 1
      [] event = "tx-begin" -> nargs = 1
      [] event = "tx-mail" -> nargs >= 3
      [] event = "tx-rcpt" -> nargs >= 3
      [] event = "data-line" -> nargs >= 2
      [] event = "commit" -> nargs = 2
      [] OTHER -> FALSE

\* The map main hands to trigger for a stream.
Handlers(stream) == IF stream = "report" THEN reporters ELSE filters

\* main: a line of fewer than six fields, log.Fatalf before the version field
\* is stored.
MissingAtoms ==
    /\ running
    /\ main' = [main EXCEPT !.pc = "fatal", !.last = [NoLine EXCEPT !.form = "short"]]
    /\ UNCHANGED <<sessions, heap, version, tasks, sink, stdout, daemon>>

\* main: a line whose first field is neither report nor filter, log.Fatalf
\* after the version field is stored.
InvalidStream(v, event, sid, nargs) ==
    /\ running
    /\ version' = v
    /\ main' = [main EXCEPT !.pc = "fatal", !.last = Line("bogus", event, sid, nargs)]
    /\ UNCHANGED <<sessions, heap, tasks, sink, stdout, daemon>>

\* A tolerant dispatcher: a refused line is dropped and the loop goes on.
TriggerFatal_Tolerant(stream, event, sid, nargs, v) ==
    /\ running
    /\ version' = v
    /\ \/ sid \notin DOMAIN sessions
       \/ event \notin Handlers(stream)
       \/ ~ArgsOk(event, nargs)
    /\ main' = [main EXCEPT !.last = Line(stream, event, sid, nargs)]
    /\ UNCHANGED <<sessions, heap, tasks, sink, stdout, daemon>>

\* trigger on a line it refuses: a link-connect event registers a fresh
\* session first, whatever the stream; then the session id is looked up
\* (log.Fatalf when absent), then the handler (log.Fatalf when the map has
\* none), and the handler tests its argument count (log.Fatal).
TriggerFatal(stream, event, sid, nargs, v) ==
    /\ running
    /\ version' = v
    /\ LET connect == event = "link-connect"
           known == IF connect THEN DOMAIN sessions \cup {sid} ELSE DOMAIN sessions
       IN  /\ \/ sid \notin known
              \/ event \notin Handlers(stream)
              \/ ~ArgsOk(event, nargs)
           /\ IF connect
              THEN /\ heap' = Append(heap, NewSession(sid))
                   /\ sessions' = [x \in known |->
                                      IF x = sid THEN Len(heap) + 1 ELSE sessions[x]]
              ELSE UNCHANGED <<sessions, heap>>
    /\ main' = [main EXCEPT !.pc = "fatal", !.last = Line(stream, event, sid, nargs)]
    /\ UNCHANGED <<tasks, sink, stdout, daemon>>

PayloadsProtocol == {<<"a">>}

NextProtocol ==
    \/ \E sid \in {1}, v \in DaemonVersions : LinkConnect(sid, v)
    \/ \E sid \in {1}, v \in DaemonVersions : LinkDisconnect(sid, v)
    \/ \E sid \in {1}, v \in DaemonVersions : TxBegin(sid, v)
    \/ \E sid \in {1}, v \in DaemonVersions : TxReset(sid, v)
    \/ \E sid \in {1}, v \in DaemonVersions, payload \in PayloadsProtocol \cup {Terminator} :
            DataLine(sid, v, payload)
    \/ \E sid \in {1}, v \in DaemonVersions : DataCommit(sid, v)
    \/ \E t \in DOMAIN tasks : TaskDoFails(t)
    \/ \E t \in DOMAIN tasks : TaskTempFail(t)
    \/ \E t \in DOMAIN tasks : TaskFlush(t)
    \/ \E t \in DOMAIN tasks : TaskEmit(t)
    \/ PrintLine
    \/ MissingAtoms
    \/ \E v \in DaemonVersions, event \in {"tx-begin"}, sid \in {1}, nargs \in {1} :
            InvalidStream(v, event, sid, nargs)
    \/ \E stream \in Streams, event \in EventNames, sid \in SessionIds,
          nargs \in ArgCounts, v \in DaemonVersions :
            TriggerFatal(stream, event, sid, nargs, v)

SpecProtocol == Init /\ [][NextProtocol]_vars

\* SpecAbort: one connection whose client may give up during a transaction,
\* also while its analysis is in flight: the daemon then reports tx-reset
\* (and link-disconnect after it) without a commit.
PayloadsAbort == {<<"a">>}

VerdictsAbort == {BaseVerdict, [BaseVerdict EXCEPT !.Action = "reject", !.SMTP = "spam detected"]}

\* report|v|ts|smtp-in|tx-reset|sid|msgid for a transaction that is not
\* committed: the txReset handler, which looks at nothing but its arguments.
TxAbort(sid, v) ==
    /\ ReadLine(v, "report", "tx-reset", sid, 1)
    /\ daemon[sid].phase \in {"tx", "wait"}
    /\ sid \in DOMAIN sessions
    /\ heap' = [heap EXCEPT ![sessions[sid]].tx = EmptyTx]
    /\ daemon' = [daemon EXCEPT ![sid].phase = "on", ![sid].ntx = @ + 1]
    /\ UNCHANGED <<sessions, tasks, sink, stdout>>

NextAbort ==
    \/ \E sid \in {1}, v \in DaemonVersions : LinkConnect(sid, v)
    \/ \E sid \in {1}, v \in DaemonVersions : LinkDisconnect(sid, v)
    \/ \E sid \in {1}, v \in DaemonVersions : TxBegin(sid, v)
    \/ \E sid \in {1}, v \in DaemonVersions : TxReset(sid, v)
    \/ \E sid \in {1}, v \in DaemonVersions : TxAbort(sid, v)
    \/ \E sid \in {1}, v \in DaemonVersions, payload \in PayloadsAbort \cup {Terminator} :
            DataLine(sid, v, payload)
    \/ \E sid \in {1}, v \in DaemonVersions : DataCommit(sid, v)
    \/ \E t \in DOMAIN tasks : TaskDoFails(t)
    \/ \E t \in DOMAIN tasks : TaskTempFail(t)
    \/ \E t \in DOMAIN tasks : TaskFlush(t)
    \/ \E t \in DOMAIN tasks, rr \in VerdictsAbort : \E order \in Orders(rr.Add) :
            TaskVerdict(t, rr, order)
    \/ \E t \in DOMAIN tasks : TaskReplay(t)
    \/ \E t \in DOMAIN tasks : TaskEmit(t)
    \/ PrintLine

SpecAbort == Init /\ [][NextAbort]_vars

\* SpecResolve: the goroutine of one message with the engine behind a
\* Unix-domain socket, the branch of the DialContext closure taken when
\* net.ResolveUnixAddr reports an error included.
PayloadsResolve == {<<"a">>, <<"b">>}

VerdictsResolve == {BaseVerdict, [BaseVerdict EXCEPT !.Action = "reject"]}

InitResolve == InitQuery(Seqs(PayloadsResolve, MaxBody))

\* The DialContext closure on a resolve error: rspamdTempFail is entered
\* from the closure, which then returns the error to the transport.
TaskResolveFails(t) ==
    /\ Live(t)
    /\ tasks[t].pc = "query"
    /\ tasks' = [tasks EXCEPT ![t].pc = "tempfail", ![t].cont = "refused", ![t].failed = TRUE]
    /\ UNCHANGED <<sessions, heap, version, sink, stdout, main, daemon>>

\* client.Do returns the closure's error: rspamdTempFail is entered again.
TaskDoRefused(t) ==
    /\ Live(t)
    /\ tasks[t].pc = "refused"
    /\ tasks' = [tasks EXCEPT ![t].pc = "tempfail", ![t].cont = "done"]
    /\ UNCHANGED <<sessions, heap, version, sink, stdout, main, daemon>>

NextResolve ==
    \/ \E t \in DOMAIN tasks : TaskResolveFails(t)
    \/ \E t \in DOMAIN tasks : TaskDoRefused(t)
    \/ \E t \in DOMAIN tasks : TaskRequestFails(t)
    \/ \E t \in DOMAIN tasks : TaskDoFails(t)
    \/ \E t \in DOMAIN tasks : TaskDecodeFails(t)
    \/ \E t \in DOMAIN tasks : TaskTempFail(t)
    \/ \E t \in DOMAIN tasks : TaskFlush(t)
    \/ \E t \in DOMAIN tasks, rr \in VerdictsResolve : \E order \in Orders(rr.Add) :
            TaskVerdict(t, rr, order)
    \/ \E t \in DOMAIN tasks : TaskReplay(t)
    \/ \E t \in DOMAIN tasks : TaskEmit(t)
    \/ PrintLine

SpecResolve == InitResolve /\ [][NextResolve]_vars

\* SpecLive: Spec with the scheduling the runtime gives: the output
\* goroutine prints a line it has received, and a goroutine that can go on
\* does, the engine answering or failing every request. SpecLiveOpen is the
\* same with the filter's input never closed.
Tokens == {DataToken(sid, n) : sid \in SessionIds, n \in 0..MaxTx}

TaskStep(t) ==
    \/ TaskFails(t)
    \/ TaskTempFail(t)
    \/ TaskFlush(t)
    \/ \E rr \in Verdicts : \E order \in Orders(rr.Add) : TaskVerdict(t, rr, order)
    \/ TaskReplay(t)
    \/ TaskEmit(t)

Fairness ==
    /\ WF_vars(PrintLine)
    /\ \A t \in Tokens : WF_vars(TaskStep(t))

SpecLive == Init /\ [][Next]_vars /\ Fairness

NextOpen ==
    \/ \E sid \in {1}, v \in DaemonVersions : LinkConnect(sid, v)
    \/ \E sid \in {1}, v \in DaemonVersions : LinkDisconnect(sid, v)
    \/ \E sid \in {1}, v \in DaemonVersions : TxBegin(sid, v)
    \/ \E sid \in {1}, v \in DaemonVersions : TxReset(sid, v)
    \/ \E sid \in {1}, v \in DaemonVersions, payload \in Payloads \cup {Terminator} :
            DataLine(sid, v, payload)
    \/ \E sid \in {1}, v \in DaemonVersions : DataCommit(sid, v)
    \/ \E t \in DOMAIN tasks : TaskRequestFails(t)
    \/ \E t \in DOMAIN tasks : TaskDoFails(t)
    \/ \E t \in DOMAIN tasks : TaskDecodeFails(t)
    \/ \E t \in DOMAIN tasks : TaskTempFail(t)
    \/ \E t \in DOMAIN tasks : TaskFlush(t)
    \/ \E t \in DOMAIN tasks, rr \in Verdicts : \E order \in Orders(rr.Add) :
            TaskVerdict(t, rr, order)
    \/ \E t \in DOMAIN tasks : TaskReplay(t)
    \/ \E t \in DOMAIN tasks : TaskEmit(t)
    \/ PrintLine

SpecLiveOpen == Init /\ [][NextOpen]_vars /\ Fairness

\* ------------------------------------------------------------------ claims
\* The lines handed to the output goroutine so far, printed or about to be.
Egress == stdout \o sink

\* A line carries the two identifiers in either layout.
Carries(line, id) == line[2] = id \/ line[3] = id

RECURSIVE PayloadsOf(_)
PayloadsOf(lines) ==
    IF lines = <<>> THEN <<>> ELSE <<Head(lines)[4]>> \o PayloadsOf(Tail(lines))

\* The payloads of the filter-datalines carrying token t, in egress order.
Block(t) ==
    PayloadsOf(SelectSeq(Egress, LAMBDA l : l[1] = "filter-dataline" /\ Carries(l, t)))

\* The payloads of the filter-results carrying token t, in egress order.
Results(t) ==
    PayloadsOf(SelectSeq(Egress, LAMBDA l : l[1] = "filter-result" /\ Carries(l, t)))

\* SMTP transparency: out is stored, line for line, with exactly the lines
\* that begin with a dot given one more.
Transparent(out, stored) ==
    /\ Len(out) = Len(stored)
    /\ \A i \in 1..Len(stored) :
          IF Len(stored[i]) > 0 /\ stored[i][1] = DOT
          THEN out[i] = <<DOT>> \o stored[i]
          ELSE out[i] = stored[i]

\* The transaction of connection sid is between its end-of-data marker and
\* its tx-reset, its goroutine has returned, and the goroutine is t.
Finished(sid, t) ==
    /\ sid \in DOMAIN sessions
    /\ daemon[sid].phase \in {"wait", "ready", "committing", "committed"}
    /\ t = DataToken(sid, daemon[sid].ntx)
    /\ t \in DOMAIN tasks
    /\ tasks[t].pc = "done"

Committed(sid) == daemon[sid].phase \in {"committing", "committed"}

TxOf(sid) == heap[sessions[sid]].tx

\* C1: when the analysis request fails, the disposition is tempfail with the
\* text "server internal error", the data block is the stored body, line for
\* line and dot-stuffed, followed by the terminator, and the commit that
\* follows emits reject|421 server internal error.
C1_FailureIsTempfail ==
    \A sid \in SessionIds : \A t \in DOMAIN tasks :
        (Finished(sid, t) /\ tasks[t].failed) =>
            /\ TxOf(sid).action = "tempfail"
            /\ TxOf(sid).response = "server internal error"
            /\ Len(Block(t)) = Len(TxOf(sid).message) + 1
            /\ Transparent(SubSeq(Block(t), 1, Len(TxOf(sid).message)), TxOf(sid).message)
            /\ Block(t)[Len(Block(t))] = Terminator
            /\ Committed(sid) =>
                  Results(CommitToken(sid, daemon[sid].ntx))
                      = << <<"reject", "421", "server internal error">> >>

C1_Witness ==
    \E sid \in SessionIds : \E t \in DOMAIN tasks :
        /\ Finished(sid, t) /\ tasks[t].failed /\ daemon[sid].phase = "committed"
        /\ Len(TxOf(sid).message) = 2
        /\ TxOf(sid).message[1] # TxOf(sid).message[2]

\* The text dataCommit sends for a reject-class verdict: the verdict's, or the
\* fixed one when the verdict brings none.
RejectText(rr) ==
    IF rr.SMTP # "" THEN rr.SMTP
    ELSE IF rr.Action = "reject" THEN "message rejected" ELSE "try again later"

RejectCode(rr) == IF rr.Action = "reject" THEN "550" ELSE "451"

RejectClass(sid, t) ==
    /\ Finished(sid, t)
    /\ ~tasks[t].failed
    /\ tasks[t].rr.Action \in {"reject", "soft reject"}

\* The data block of goroutine t is the stored body of connection sid, line for
\* line and dot-stuffed, followed by the terminator.
BodyFlushed(sid, t) ==
    /\ Len(Block(t)) = Len(TxOf(sid).message) + 1
    /\ Transparent(SubSeq(Block(t), 1, Len(TxOf(sid).message)), TxOf(sid).message)
    /\ Block(t)[Len(Block(t))] = Terminator

\* C2 as stated: for a verdict reject or soft reject the disposition and text
\* are the verdict's, the data block is the original body and the terminator,
\* and the commit emits reject|550 <smtp_message>, or reject|451
\* <smtp_message> for soft reject.
C2_AsStated ==
    \A sid \in SessionIds : \A t \in DOMAIN tasks :
        RejectClass(sid, t) =>
            /\ TxOf(sid).action = tasks[t].rr.Action
            /\ BodyFlushed(sid, t)
            /\ Committed(sid) =>
                  Results(CommitToken(sid, daemon[sid].ntx))
                      = << <<"reject", RejectCode(tasks[t].rr), tasks[t].rr.SMTP>> >>

\* C2, amended: the same, the commit emitting the verdict's smtp_message when
\* there is one and "message rejected" (reject) or "try again later" (soft
\* reject) when the verdict's smtp_message is empty.
C2_RejectFromVerdict ==
    \A sid \in SessionIds : \A t \in DOMAIN tasks :
        RejectClass(sid, t) =>
            /\ TxOf(sid).action = tasks[t].rr.Action
            /\ ~Committed(sid) => TxOf(sid).response = tasks[t].rr.SMTP
            /\ BodyFlushed(sid, t)
            /\ Committed(sid) =>
                  Results(CommitToken(sid, daemon[sid].ntx))
                      = << <<"reject", RejectCode(tasks[t].rr), RejectText(tasks[t].rr)>> >>

C2_Witness ==
    \E sid \in SessionIds : \E t \in DOMAIN tasks :
        /\ RejectClass(sid, t) /\ daemon[sid].phase = "committed"
        /\ tasks[t].rr.Action = "soft reject" /\ tasks[t].rr.SMTP = "slow down"
        /\ Len(TxOf(sid).message) = 2

\* C3: a verdict whose action is greylist makes the commit emit a reject
\* result with code 421, not proceed.
C3_GreylistRejected ==
    \A sid \in SessionIds : \A t \in DOMAIN tasks :
        (Finished(sid, t) /\ ~tasks[t].failed /\ tasks[t].rr.Action = "greylist"
            /\ Committed(sid)) =>
            LET r == Results(CommitToken(sid, daemon[sid].ntx))
            IN  Len(r) = 1 /\ r[1][1] = "reject" /\ r[1][2] = "421"

\* C4: every commit produces exactly one filter-result line carrying its
\* session and token, reject|421 for tempfail, reject|550 for reject,
\* reject|451 for soft reject and proceed for any other disposition; without
\* a commit there is no result line.
C4_OneResultPerCommit ==
    \A sid \in DOMAIN sessions :
        LET tok == CommitToken(sid, daemon[sid].ntx)
            r == Results(tok)
            a == TxOf(sid).action
        IN  IF Committed(sid)
            THEN /\ Len(r) = 1
                 /\ \A i \in 1..Len(Egress) :
                       (Egress[i][1] = "filter-result" /\ Carries(Egress[i], tok)) =>
                           Carries(Egress[i], sid)
                 /\ CASE a = "tempfail" -> Len(r[1]) = 3 /\ r[1][1] = "reject" /\ r[1][2] = "421"
                      [] a = "reject" -> Len(r[1]) = 3 /\ r[1][1] = "reject" /\ r[1][2] = "550"
                      [] a = "soft reject" ->
                            Len(r[1]) = 3 /\ r[1][1] = "reject" /\ r[1][2] = "451"
                      [] OTHER -> r[1] = <<"proceed">>
            ELSE r = <<>>

C4_Witness ==
    \E sid \in DOMAIN sessions :
        /\ daemon[sid].phase = "committed"
        /\ TxOf(sid).action = ""
        /\ Results(CommitToken(sid, daemon[sid].ntx)) = << <<"proceed">> >>
        /\ \E t \in DOMAIN tasks : Finished(sid, t) /\ tasks[t].rr.Action = "greylist"

\* C5: with two connections at once, every egress line is whole (one type,
\* the id of one session and one of its tokens, one payload); the data lines
\* carrying a token are, in order, the block of that message, complete and
\* ended by its terminator once the goroutine has returned and without a
\* terminator before; the result line of a session comes after that terminator.
WholeLine(l) ==
    /\ Len(l) = 4
    /\ l[1] \in {"filter-dataline", "filter-result"}
    /\ \E sid \in SessionIds : \E n \in 0..MaxTx :
          /\ {l[2], l[3]} = {sid, IF l[1] = "filter-dataline" THEN DataToken(sid, n)
                                     ELSE CommitToken(sid, n)}

\* The position in the egress of the terminator of token t, 0 if not there.
TerminatorAt(t) ==
    LET at == {i \in 1..Len(Egress) :
                  Egress[i][1] = "filter-dataline" /\ Carries(Egress[i], t)
                      /\ Egress[i][4] = Terminator}
    IN  IF at = {} THEN 0 ELSE CHOOSE i \in at : \A j \in at : i <= j

\* The X-Spam lines of the add header verdict of SpecTwo.
SpamPrefix(rr) ==
    IF rr.Action = "add header"
    THEN << <<"X", "-", "S", "p", "a", "m", ":", " ", "y", "e", "s">>,
            <<"X", "-", "S", "p", "a", "m", "-", "S", "c", "o", "r", "e", ":", " ",
              "1", "2", ".", "3", " ", "/", " ", "6">> >>
    ELSE <<>>

C5_BlocksWhole ==
    /\ \A i \in 1..Len(Egress) : WholeLine(Egress[i])
    /\ \A sid \in DOMAIN sessions :
          LET t == DataToken(sid, daemon[sid].ntx)
              b == Block(t)
              m == TxOf(sid).message
          IN  /\ \A i \in 1..(Len(b) - 1) : b[i] # Terminator
              /\ (t \in DOMAIN tasks /\ tasks[t].pc = "done") =>
                    LET pre == IF tasks[t].failed THEN <<>> ELSE SpamPrefix(tasks[t].rr)
                    IN  /\ Len(b) = Len(pre) + Len(m) + 1
                        /\ SubSeq(b, 1, Len(pre)) = pre
                        /\ Transparent(SubSeq(b, Len(pre) + 1, Len(b) - 1), m)
                        /\ b[Len(b)] = Terminator
              /\ (t \in DOMAIN tasks /\ tasks[t].pc # "done") => TerminatorAt(t) = 0
              /\ Committed(sid) =>
                    \E i \in 1..Len(Egress) :
                        /\ Egress[i][1] = "filter-result"
                        /\ Carries(Egress[i], CommitToken(sid, daemon[sid].ntx))
                        /\ Carries(Egress[i], sid)
                        /\ TerminatorAt(t) > 0
                        /\ TerminatorAt(t) < i

\* Connection 1's block begins first and ends last, connection 2's lies in
\* between, and both transactions are committed.
C5_Witness ==
    /\ \A sid \in SessionIds : sid \in DOMAIN sessions /\ daemon[sid].phase = "committed"
    /\ \E i \in 1..Len(Egress) : \E j \in 1..Len(Egress) :
          /\ i < j
          /\ Egress[i][1] = "filter-dataline" /\ Carries(Egress[i], DataToken(1, 0))
          /\ Egress[j][1] = "filter-dataline" /\ Carries(Egress[j], DataToken(2, 0))
          /\ j < TerminatorAt(DataToken(2, 0))
          /\ TerminatorAt(DataToken(2, 0)) < TerminatorAt(DataToken(1, 0))

\* C8: a data line whose payload is "." is not stored and starts the
\* goroutine of the message; every other data line appends its payload, the
\* "|" in it kept, less one leading ".", so that the stored body is the
\* lines received, in order.
C8_DataLineStored ==
    \A sid \in DOMAIN sessions :
        daemon[sid].phase \in {"tx", "wait", "ready", "committing", "committed"} =>
            LET sent == daemon[sid].sent
                m == TxOf(sid).message
            IN  /\ Len(m) = Len(sent)
                /\ \A i \in 1..Len(sent) :
                      m[i] = IF Len(sent[i]) > 0 /\ sent[i][1] = DOT
                             THEN Tail(sent[i]) ELSE sent[i]
                /\ (DataToken(sid, daemon[sid].ntx) \in DOMAIN tasks)
                      <=> (daemon[sid].phase # "tx")

C8_Witness ==
    \E sid \in DOMAIN sessions :
        /\ daemon[sid].phase = "wait"
        /\ daemon[sid].sent = << <<"a", PIPE, "b">>, <<DOT, DOT>> >>
        /\ TxOf(sid).message = << <<"a", PIPE, "b">>, <<DOT>> >>
        /\ tasks[DataToken(sid, daemon[sid].ntx)].pc = "query"

\* The goroutine t has returned after a verdict that is not reject-class.
Rewritten(t) ==
    /\ tasks[t].pc = "done"
    /\ ~tasks[t].failed
    /\ tasks[t].rr.Action \notin {"reject", "soft reject"}

\* C6: in a rewritten block every payload before the terminator that begins
\* with "." begins with "..", the lines of verdict-supplied headers included,
\* so that none of them is ".".
C6_EveryDotStuffed ==
    \A t \in DOMAIN tasks :
        Rewritten(t) =>
            \A i \in 1..(Len(Block(t)) - 1) :
                /\ Block(t)[i] # Terminator
                /\ HasPrefix(Block(t)[i], <<DOT>>) => HasPrefix(Block(t)[i], <<DOT, DOT>>)

\* The line begins with one "." that is not followed by another.
SingleDot(line) == HasPrefix(line, <<DOT>>) /\ ~HasPrefix(line, <<DOT, DOT>>)

\* The payload emitted for body line i of the message of goroutine t.
BodyOut(t, i) == Block(t)[Len(Block(t)) - 1 - Len(heap[tasks[t].s].tx.message) + i]

\* C7 as stated: every stored line M is emitted as a payload that unescapes
\* to M, and every received line L is emitted again as L.
C7_AsStated ==
    \A t \in DOMAIN tasks :
        tasks[t].pc = "done" =>
            LET m == heap[tasks[t].s].tx.message
                sent == daemon[heap[tasks[t].s].id].sent
            IN  /\ Len(Block(t)) >= Len(m) + 1
                /\ \A i \in 1..Len(m) :
                      /\ Unescape(BodyOut(t, i)) = m[i]
                      /\ BodyOut(t, i) = sent[i]

\* C7, amended: every stored line M is emitted as a payload that unescapes to
\* M; a received line L is emitted again as L unless it begins with a single
\* "." not followed by another, and then it is emitted without that ".".
C7_EscapeInverse ==
    \A t \in DOMAIN tasks :
        tasks[t].pc = "done" =>
            LET m == heap[tasks[t].s].tx.message
                sent == daemon[heap[tasks[t].s].id].sent
            IN  /\ Len(Block(t)) >= Len(m) + 1
                /\ \A i \in 1..Len(m) :
                      /\ Unescape(BodyOut(t, i)) = m[i]
                      /\ BodyOut(t, i) = IF SingleDot(sent[i]) THEN Tail(sent[i]) ELSE sent[i]

C7_Witness ==
    \E t \in DOMAIN tasks :
        /\ tasks[t].pc = "done"
        /\ daemon[1].sent = << <<DOT, DOT, "a">>, <<DOT, "a">> >>
        /\ heap[tasks[t].s].tx.message = << <<DOT, "a">>, <<"a">> >>
        /\ BodyOut(t, 1) = <<DOT, DOT, "a">>
        /\ BodyOut(t, 2) = <<"a">>

\* The header section of m ends before its first empty line.
HdrEnd(m) ==
    IF \E i \in 1..Len(m) : m[i] = <<>>
    THEN CHOOSE i \in 1..Len(m) : m[i] = <<>> /\ \A j \in 1..(i - 1) : m[j] # <<>>
    ELSE Len(m) + 1

InHeaders(m, i) == i < HdrEnd(m)

\* Line j of m is a header whose name the verdict removes.
Named(m, rr, j) ==
    InHeaders(m, j) /\ \E h \in rr.Remove : HasPrefix(m[j], h \o <<COLON>>)

Indented(line) == Len(line) > 0 /\ line[1] \in {TAB, SP}

\* Line i of m is a removed header or one of the continuation lines that
\* follow it immediately.
Suppressed(m, rr, i) ==
    /\ InHeaders(m, i)
    /\ \E j \in 1..i : Named(m, rr, j) /\ \A k \in (j + 1)..i : Indented(m[k])

\* The lines of m that are not suppressed, by their positions, in order.
Kept(m, rr) ==
    SelectSeq([i \in 1..Len(m) |-> i], LAMBDA i : ~Suppressed(m, rr, i))

\* C9: in the replay of a pass-class message a header line whose name is in
\* the remove set is suppressed with the continuation lines (tab or space)
\* that follow it immediately; suppression stops at the next unindented line
\* and at the blank line ending the headers; every other line is emitted, in
\* order.  'X-Foo: a', '\tb', 'X-Bar: c', '' with remove set {X-Foo} comes
\* out as 'X-Bar: c', ''.
C9_HeadersRemoved ==
    \A t \in DOMAIN tasks :
        Rewritten(t) =>
            LET m == heap[tasks[t].s].tx.message
                rr == tasks[t].rr
                kept == Kept(m, rr)
                b == Block(t)
            IN  /\ Len(b) = Len(kept) + 1
                /\ b[Len(b)] = Terminator
                /\ \A k \in 1..Len(kept) :
                      ~HasPrefix(m[kept[k]], SubjectPrefix) => b[k] = m[kept[k]]
                /\ (m = <<XFoo \o <<COLON, SP, "a">>, <<TAB, "b">>,
                          XBar \o <<COLON, SP, "c">>, <<>> >> /\ rr.Remove = {XFoo})
                      => b = <<XBar \o <<COLON, SP, "c">>, <<>>, Terminator>>

C9_Witness ==
    \E t \in DOMAIN tasks :
        /\ Rewritten(t)
        /\ tasks[t].rr.Remove = {XFoo}
        /\ heap[tasks[t].s].tx.message
              = <<XFoo \o <<COLON, SP, "a">>, <<TAB, "b">>, XBar \o <<COLON, SP, "c">>, <<>> >>
        /\ Block(t) = <<XBar \o <<COLON, SP, "c">>, <<>>, Terminator>>

\* The first line of the header section of m that begins with "Subject: ",
\* 0 if there is none.
FirstSubject(m) ==
    LET at == {i \in 1..Len(m) : InHeaders(m, i) /\ HasPrefix(m[i], SubjectPrefix)}
    IN  IF at = {} THEN 0 ELSE CHOOSE i \in at : \A j \in at : i <= j

\* C10 as stated: under rewrite subject only the first line of the header
\* section beginning with "Subject: " is replaced by "Subject: <subject>";
\* every later such line is emitted untouched.
C10_AsStated ==
    \A t \in DOMAIN tasks :
        (Rewritten(t) /\ tasks[t].rr.Action = "rewrite subject") =>
            LET m == heap[tasks[t].s].tx.message
                rr == tasks[t].rr
                kept == Kept(m, rr)
                b == Block(t)
            IN  /\ Len(b) = Len(kept) + 1
                /\ \A k \in 1..Len(kept) :
                      HasPrefix(m[kept[k]], SubjectPrefix) =>
                          b[k] = IF kept[k] = FirstSubject(m)
                                 THEN SubjectPrefix \o rr.Subject ELSE m[kept[k]]

\* C10, amended: under rewrite subject every emitted line of the header
\* section beginning with "Subject: " is replaced by "Subject: <subject>",
\* the first and any later one; such a line after the blank line ending the
\* headers, and any such line under another action, is emitted untouched.
C10_SubjectRewritten ==
    \A t \in DOMAIN tasks :
        Rewritten(t) =>
            LET m == heap[tasks[t].s].tx.message
                rr == tasks[t].rr
                kept == Kept(m, rr)
                b == Block(t)
            IN  /\ Len(b) = Len(kept) + 1
                /\ \A k \in 1..Len(kept) :
                      HasPrefix(m[kept[k]], SubjectPrefix) =>
                          b[k] = IF rr.Action = "rewrite subject" /\ InHeaders(m, kept[k])
                                 THEN SubjectPrefix \o rr.Subject ELSE m[kept[k]]

C10_Witness ==
    \E t \in DOMAIN tasks :
        /\ Rewritten(t)
        /\ tasks[t].rr.Action = "rewrite subject"
        /\ heap[tasks[t].s].tx.message
              = <<SubjectPrefix \o <<"s">>, SubjectPrefix \o <<"s">>, <<>>,
                  SubjectPrefix \o <<"s">> >>
        /\ Block(t) = <<SubjectPrefix \o <<"x">>, SubjectPrefix \o <<"x">>, <<>>,
                        SubjectPrefix \o <<"s">>, Terminator>>

\* The tab-indented lines of the block of t, without the tab.
TestsLines(t) ==
    LET tabbed == SelectSeq(Block(t), LAMBDA l : HasPrefix(l, <<TAB>>))
    IN  [i \in 1..Len(tabbed) |-> Tail(tabbed[i])]

\* The lines of the tests block as they stand before the trailing bracket.
TestsBodies(t) ==
    LET ls == TestsLines(t)
    IN  [i \in 1..Len(ls) |->
            IF i = Len(ls) THEN SubSeq(ls[i], 1, Len(ls[i]) - 1) ELSE ls[i]]

\* The name=score items of one line, the opening "tests=[" set aside.
RECURSIVE ItemsOf(_)
ItemsOf(parts) ==
    IF parts = <<>> THEN <<>>
    ELSE LET p == TrimPrefix(TrimPrefix(Head(parts), <<SP>>), TestsOpen)
         IN  (IF p = <<>> THEN <<>> ELSE <<p>>) \o ItemsOf(Tail(parts))

RECURSIVE AllItems(_)
AllItems(lines) ==
    IF lines = <<>> THEN <<>>
    ELSE ItemsOf(Split(Head(lines), ",")) \o AllItems(Tail(lines))

\* The block lists every symbol once, as name=score, in the order of the names.
TestsListed(t) ==
    LET sy == tasks[t].rr.Symbols
        items == AllItems(TestsBodies(t))
    IN  /\ Len(TestsLines(t)) >= 1
        /\ HasPrefix(TestsLines(t)[1], TestsOpen)
        /\ TestsLines(t)[Len(TestsLines(t))][Len(TestsLines(t)[Len(TestsLines(t))])] = "]"
        /\ Len(items) = Cardinality(DOMAIN sy)
        /\ {items[i] : i \in 1..Len(items)} = {n \o <<"=">> \o Fmt3f(sy[n]) : n \in DOMAIN sy}
        /\ \A i \in 1..Len(items) : \A j \in 1..Len(items) :
              i < j => StrLess(items[i], items[j])

\* No line of the block holds more than 68 characters before the bracket.
TestsWithin(t) ==
    \A i \in 1..Len(TestsBodies(t)) : Len(TestsBodies(t)[i]) <= 68

SymbolsDone(t) ==
    /\ Rewritten(t)
    /\ tasks[t].rr.Action = "add header"
    /\ DOMAIN tasks[t].rr.Symbols # {}

\* C11: for add header with a non-empty symbol map the tests=[...] block
\* lists every symbol exactly once as name=score in lexicographic order of
\* name, and no tab-indented line of it holds more than 68 characters before
\* the trailing bracket.
C11_TestsWrapped ==
    \A t \in DOMAIN tasks : SymbolsDone(t) => (TestsListed(t) /\ TestsWithin(t))

\* The part of C11 that the program keeps: the listing.
C11_TestsListed ==
    \A t \in DOMAIN tasks : SymbolsDone(t) => TestsListed(t)

\* Two symbols of 25 and 24 characters come out on one line of 70.
C11_Overlong ==
    \A t \in DOMAIN tasks :
        (SymbolsDone(t) /\ DOMAIN tasks[t].rr.Symbols = {Rep("A", 25), Rep("B", 24)}) =>
            TestsWithin(t)

\* An add header verdict that brings nothing but its two scores.
BareSpam(t) ==
    /\ Rewritten(t)
    /\ tasks[t].rr.Action = "add header"
    /\ DOMAIN tasks[t].rr.Symbols = {}
    /\ tasks[t].rr.DKIMSig = NoDkim
    /\ tasks[t].rr.Add = {} /\ tasks[t].rr.Remove = {}

\* The block of t is these two lines, the stored body and the terminator.
SpamBlock(t, first, second) ==
    LET b == Block(t)
        m == heap[tasks[t].s].tx.message
    IN  /\ Len(b) = Len(m) + 3
        /\ b[1] = first
        /\ b[2] = second
        /\ Transparent(SubSeq(b, 3, Len(b) - 1), m)
        /\ b[Len(b)] = Terminator

XSpamYes ==
    <<"X", "-", "S", "p", "a", "m", ":", " ", "y", "e", "s">>
\* The scores of SymbolVerdicts written with three decimals each.
ScoreLine3(rr) ==
    CASE rr.Score = 12300 -> <<"X", "-", "S", "p", "a", "m", "-", "S", "c", "o", "r", "e", ":", " ", "1", "2", ".", "3", "0", "0", " ", "/", " ", "6", ".", "0", "0", "0">>
      [] rr.Score = 7250 -> <<"X", "-", "S", "p", "a", "m", "-", "S", "c", "o", "r", "e", ":", " ", "7", ".", "2", "5", "0", " ", "/", " ", "5", ".", "0", "0", "0">>
      [] OTHER -> <<"X", "-", "S", "p", "a", "m", "-", "S", "c", "o", "r", "e", ":", " ", "1", "5", ".", "0", "0", "0", " ", "/", " ", "1", "5", ".", "1", "2", "5">>
\* The same scores written as the shortest decimal that reads back.
ScoreLineV(rr) ==
    CASE rr.Score = 12300 -> <<"X", "-", "S", "p", "a", "m", "-", "S", "c", "o", "r", "e", ":", " ", "1", "2", ".", "3", " ", "/", " ", "6">>
      [] rr.Score = 7250 -> <<"X", "-", "S", "p", "a", "m", "-", "S", "c", "o", "r", "e", ":", " ", "7", ".", "2", "5", " ", "/", " ", "5">>
      [] OTHER -> <<"X", "-", "S", "p", "a", "m", "-", "S", "c", "o", "r", "e", ":", " ", "1", "5", " ", "/", " ", "1", "5", ".", "1", "2", "5">>

\* C12 as stated: for add header with no symbols, no DKIM signature and no
\* add or remove headers the block is 'X-Spam: yes', 'X-Spam-Score: <score> /
\* <required>' with three decimals each (12.300 / 6.000), the original lines
\* and the terminator.
C12_AsStated ==
    \A t \in DOMAIN tasks :
        BareSpam(t) => SpamBlock(t, XSpamYes, ScoreLine3(tasks[t].rr))

\* C12, amended: the same block, each score written as the shortest decimal
\* that reads back to it, without trailing zeros or a bare point (12.3 / 6).
C12_SpamHeaders ==
    \A t \in DOMAIN tasks :
        BareSpam(t) => SpamBlock(t, XSpamYes, ScoreLineV(tasks[t].rr))

C12_Witness ==
    \E t \in DOMAIN tasks :
        /\ BareSpam(t)
        /\ tasks[t].rr.Score = 12300 /\ tasks[t].rr.RequiredScore = 6000
        /\ Block(t) = <<XSpamYes, <<"X", "-", "S", "p", "a", "m", "-", "S", "c", "o", "r", "e", ":", " ", "1", "2", ".", "3", " ", "/", " ", "6">>, <<"a">>, <<>>, Terminator>>

\* The lines of the block of t that come before the replayed body (the
\* verdicts of SpecHeaders remove nothing).
HeaderPart(t) ==
    SubSeq(Block(t), 1, Len(Block(t)) - Len(heap[tasks[t].s].tx.message) - 1)

\* The positions at which the one-line header h: v stands in the header part.
At(t, h, v) ==
    {i \in 1..Len(HeaderPart(t)) : HeaderPart(t)[i] = h \o <<COLON, SP>> \o v}

\* The place of a structured header in the fixed order, 0 for any other name.
Rank(h) ==
    CASE h = ArcSeal -> 1
      [] h = ArcMessageSignature -> 2
      [] h = ArcAuthenticationResults -> 3
      [] h = AuthenticationResults -> 4
      [] OTHER -> 0

PlainOf(rr) == {e \in rr.Add : e.kind = "string"}
StructuredOf(rr) == {e \in rr.Add : e.kind = "object" /\ Rank(e.h) > 0 /\ e.v # <<>>}

\* C13: of the verdict's add-headers every plain-string header is emitted
\* before any structured one, the structured ones are emitted in the order
\* ARC-Seal, ARC-Message-Signature, ARC-Authentication-Results,
\* Authentication-Results, and all of them come before the first replayed
\* body line.
C13_AddHeadersOrdered ==
    \A t \in DOMAIN tasks :
        Rewritten(t) =>
            LET rr == tasks[t].rr
            IN  /\ Len(Block(t)) >= Len(heap[tasks[t].s].tx.message) + 1
                /\ \A e \in PlainOf(rr) \cup StructuredOf(rr) :
                      Cardinality(At(t, e.h, e.v)) = 1
                /\ \A p \in PlainOf(rr) : \A q \in StructuredOf(rr) :
                      \A i \in At(t, p.h, p.v) : \A j \in At(t, q.h, q.v) : i < j
                /\ \A p \in StructuredOf(rr) : \A q \in StructuredOf(rr) :
                      Rank(p.h) < Rank(q.h) =>
                          \A i \in At(t, p.h, p.v) : \A j \in At(t, q.h, q.v) : i < j

\* X-Bar is written before X-Foo, and the three structured headers follow in
\* the fixed order, ahead of a body of two lines.
C13_Witness ==
    \E t \in DOMAIN tasks :
        /\ Rewritten(t)
        /\ Block(t) = <<XBar \o <<COLON, SP, "b">>, XFoo \o <<COLON, SP, "a">>,
                        ArcSeal \o <<COLON, SP, "s">>,
                        ArcMessageSignature \o <<COLON, SP, "m">>,
                        AuthenticationResults \o <<COLON, SP, "r">>,
                        <<"a">>, <<>>, Terminator>>

\* The lines of one DKIM-Signature header: the name on the first physical
\* line of the value, the remaining lines as they are.
SignatureLines(v) ==
    LET parts == Split(v, NL)
    IN  <<DkimSignature \o <<COLON, SP>> \o Head(parts)>> \o Tail(parts)

RECURSIVE SignaturesOf(_)
SignaturesOf(entries) ==
    IF entries = <<>> THEN <<>>
    ELSE (IF Head(entries).ok /\ Head(entries).v # <<>>
          THEN SignatureLines(Head(entries).v) ELSE <<>>) \o SignaturesOf(Tail(entries))

ExpectedSignatures(sig) ==
    CASE sig.kind = "string" -> IF sig.v = <<>> THEN <<>> ELSE SignatureLines(sig.v)
      [] sig.kind = "list" -> SignaturesOf(sig.v)
      [] OTHER -> <<>>

\* C14: in a pass-class block the DKIM-Signature lines come first; every
\* non-empty entry of the field (a string, or the strings of a list) gives one
\* header, 'DKIM-Signature: <first line>' and then its other lines as they
\* are; an absent field and an empty entry give nothing.
C14_DkimFirst ==
    \A t \in DOMAIN tasks :
        Rewritten(t) =>
            LET ex == ExpectedSignatures(tasks[t].rr.DKIMSig)
                b == Block(t)
            IN  /\ Len(b) >= Len(ex)
                /\ SubSeq(b, 1, Len(ex)) = ex
                /\ \A i \in (Len(ex) + 1)..Len(b) :
                      ~HasPrefix(b[i], DkimSignature \o <<COLON>>)

C14_Witness ==
    \E t \in DOMAIN tasks :
        /\ Rewritten(t)
        /\ tasks[t].rr.DKIMSig.kind = "list"
        /\ Len(Block(t)) = 9
        /\ SubSeq(Block(t), 1, 5)
              = <<DkimSignature \o <<COLON, SP, "v">>, <<TAB, "b">>,
                  DkimSignature \o <<COLON, SP, "w">>, XSpamYes,
                  <<"X", "-", "S", "p", "a", "m", "-", "S", "c", "o", "r", "e", ":", " ", "1", "2", ".", "3", " ", "/", " ", "6">>>>
        /\ Block(t)[6] = XFoo \o <<COLON, SP, "a">>

\* The line is laid out as the version ver asks: kind|token|session|payload
\* below "0.5", kind|session|token|payload otherwise.
LaidOut(l, ver) ==
    /\ Len(l) = 4
    /\ l[1] \in {"filter-dataline", "filter-result"}
    /\ IF StrLess(ver, <<"0", ".", "5">>)
       THEN l[3] \in SessionIds /\ l[2] \notin SessionIds
       ELSE l[2] \in SessionIds /\ l[3] \notin SessionIds

\* C15: every filter-dataline and filter-result is laid out by the version
\* field of the ingress line read last at the moment the line is produced:
\* a goroutine's line by the version then current, the result of a commit by
\* the version of the commit line itself.
C15_LayoutFollowsVersion ==
    [][ /\ \A t \in DOMAIN tasks :
              (t \in DOMAIN tasks' /\ tasks'[t].out # tasks[t].out /\ tasks'[t].out # <<>>)
                  => LaidOut(tasks'[t].out[1], version)
        /\ (sink = <<>> /\ sink' # <<>> /\ sink'[1][1] = "filter-result")
              => LaidOut(sink'[1], version')
        /\ (sink = <<>> /\ sink' # <<>> /\ sink'[1][1] = "filter-dataline")
              => \E t \in DOMAIN tasks : tasks[t].out = sink' ]_vars

\* The block of one message holds lines in both layouts: the version changed
\* while it was being written, by a line of the other connection.
C15_Witness ==
    \E i \in 1..Len(Egress) : \E j \in 1..Len(Egress) :
        /\ Egress[i][1] = "filter-dataline" /\ Egress[j][1] = "filter-dataline"
        /\ Egress[i][2] = 1 /\ Egress[i][3] = DataToken(1, 0)
        /\ Egress[j][3] = 1 /\ Egress[j][2] = DataToken(1, 0)
        /\ i < j

\* The registrations the handshake owes: one for each handled event.
Registrations ==
    {<<"register", "report", "smtp-in", k>> :
        k \in {"link-connect", "link-disconnect", "link-greeting", "link-identify",
               "link-auth", "tx-reset", "tx-begin", "tx-mail", "tx-rcpt"}}
    \cup {<<"register", "filter", "smtp-in", k>> : k \in {"data-line", "commit"}}

\* Nothing of an event has been taken in.
Untouched ==
    sessions = <<>> /\ heap = <<>> /\ version = <<>> /\ tasks = <<>> /\ sink = <<>>

\* C16: before config|ready has been read nothing is dispatched and nothing
\* emitted; after it one register line is emitted for each handled report
\* event and each handled filter event, then register|ready, and only after
\* that is an event dispatched.
C16_Handshake ==
    /\ main.pc = "skip" => (Untouched /\ stdout = <<>>)
    /\ main.pc = "register" => (Untouched /\ stdout = <<>> /\ main.read >= 1)
    /\ (main.pc = "loop" \/ ~Untouched) =>
          /\ main.read >= 1
          /\ Len(stdout) >= 12
          /\ {stdout[i] : i \in 1..11} = Registrations
          /\ stdout[12] = <<"register", "ready">>
          /\ \A i \in 13..Len(stdout) : stdout[i][1] # "register"

\* Two lines were passed over, the early link-connect among them, and the
\* first event dispatched is a later link-connect.
C16_Witness ==
    /\ main.pc = "loop"
    /\ main.read = MaxSkip + 1
    /\ Len(stdout) = 12
    /\ 1 \in DOMAIN sessions
    /\ daemon[1].phase = "tx"

\* A step of the dispatch loop that read a line other than the one before.
NewLine == main'.last # main.last

\* The daemon has announced connection sid and not its end.
Connected(sid) ==
    daemon[sid].phase \in {"on", "tx", "wait", "ready", "committing", "committed"}

\* C17: a connect event puts the session id in the registry, where it stays
\* while the connection lasts; the disconnect event takes it out; an event
\* other than a connect that names an id absent from the registry ends the
\* process, and no step follows the end.
C17_RegistryFollowsLinks ==
    [][/\ main.pc # "fatal"
       /\ \A sid \in SessionIds : Connected(sid)' => sid \in DOMAIN sessions'
       /\ (NewLine /\ main'.last.form = "full") =>
             /\ main'.last.event = "link-connect" => main'.last.sid \in DOMAIN sessions'
             /\ (main'.last.event = "link-disconnect" /\ main'.pc = "loop") =>
                   main'.last.sid \notin DOMAIN sessions'
             /\ (main'.last.event # "link-connect" /\ main'.last.sid \notin DOMAIN sessions) =>
                   main'.pc = "fatal"]_vars

\* A well-formed tx-begin for connection 1 arrived after its disconnect.
C17_Witness ==
    /\ main.pc = "fatal"
    /\ main.last = Line("report", "tx-begin", 1, 1)
    /\ daemon[1].phase = "gone"
    /\ 1 \notin DOMAIN sessions

\* The line breaks the wire format: too few fields, a stream that is neither
\* report nor filter, an event the stream's map does not handle, or an
\* argument count its handler rejects.
IllFormed(line) ==
    \/ line.form = "short"
    \/ /\ line.form = "full"
       /\ \/ line.stream \notin Streams
          \/ line.event \notin Handlers(line.stream)
          \/ ~ArgsOk(line.event, line.nargs)

\* C18: after an ill-formed ingress line the process has terminated, and a
\* terminated process takes no further step.
C18_IllFormedIsFatal ==
    [][/\ main.pc # "fatal"
       /\ (NewLine /\ IllFormed(main'.last)) => main'.pc = "fatal"]_vars

\* A tx-begin with two arguments for a registered session, a transaction
\* being open.
C18_Witness ==
    /\ main.pc = "fatal"
    /\ main.last = Line("report", "tx-begin", 1, 2)
    /\ 1 \in DOMAIN sessions
    /\ daemon[1].phase = "tx"

\* C19: after a tx-reset, and until the next tx-begin, the session's
\* transaction is empty: no message id, sender, recipients, body lines,
\* action or response.
C19_EmptyAfterReset ==
    \A sid \in DOMAIN sessions :
        (daemon[sid].phase = "on" /\ daemon[sid].ntx > 0) => TxOf(sid) = EmptyTx

\* The same, where every tx-reset follows the result of a commit.
C19_EmptyAfterCommit ==
    \A sid \in DOMAIN sessions :
        (daemon[sid].phase = "on" /\ daemon[sid].ntx > 0 /\ main.last.event = "tx-reset") =>
            /\ TxOf(sid) = EmptyTx
            /\ \A t \in DOMAIN tasks : tasks[t].pc = "done"

\* A goroutine started before the tx-reset stored its failure after it.
C19_StaleWrite ==
    /\ 1 \in DOMAIN sessions
    /\ daemon[1].phase = "on"
    /\ main.last.event = "tx-reset"
    /\ TxOf(1) = [EmptyTx EXCEPT !.action = "tempfail", !.response = "server internal error"]

\* The analysis of transaction token t is in flight.
InFlight(t) == t \in DOMAIN tasks /\ tasks[t].pc # "done"

\* C20: a transaction has at most one analysis: the goroutine for its token
\* is started once, by the end-of-data marker, and no content line of the
\* transaction is received while it runs.
C20_OneAnalysisPerTx ==
    /\ \A t \in DOMAIN tasks : tasks[t].starts = 1
    /\ \A sid \in DOMAIN sessions :
          daemon[sid].phase = "tx" => DataToken(sid, daemon[sid].ntx) \notin DOMAIN tasks
    /\ \A sid \in DOMAIN sessions :
          InFlight(DataToken(sid, daemon[sid].ntx)) => daemon[sid].phase = "wait"

\* The analysis of a two-line message is handing over its block.
C20_Witness ==
    /\ daemon[1].phase = "wait"
    /\ Len(daemon[1].sent) = MaxBody
    /\ InFlight(DataToken(1, 0))
    /\ tasks[DataToken(1, 0)].pc = "emit"
    /\ tasks[DataToken(1, 0)].starts = 1

\* The request of connection sid's current transaction is outstanding.
Outstanding(sid) ==
    /\ DataToken(sid, daemon[sid].ntx) \in DOMAIN tasks
    /\ tasks[DataToken(sid, daemon[sid].ntx)].pc = "query"

\* The dispatch loop takes the event the daemon may send next for
\* connection sid; a commit's result line needs the output goroutine free.
Served(sid) ==
    /\ daemon[sid].phase = "off" =>
          ENABLED (\E v \in DaemonVersions : LinkConnect(sid, v))
    /\ daemon[sid].phase = "on" =>
          ENABLED (\E v \in DaemonVersions : LinkDisconnect(sid, v))
    /\ daemon[sid].phase = "tx" =>
          ENABLED (\E v \in DaemonVersions : DataLine(sid, v, Terminator))
    /\ (daemon[sid].phase = "ready" /\ sink = <<>>) =>
          ENABLED (\E v \in DaemonVersions : DataCommit(sid, v))
    /\ daemon[sid].phase = "committed" =>
          ENABLED (\E v \in DaemonVersions : TxReset(sid, v))

\* C21: while the request of one connection is outstanding, the dispatch
\* loop takes the next event of the other connection, whatever it is.
C21_LoopStaysFree ==
    \A sid \in SessionIds, other \in SessionIds :
        (running /\ sid # other /\ Outstanding(sid)) => Served(other)

\* The requests of both connections are outstanding at once.
C21_Witness == running /\ Outstanding(1) /\ Outstanding(2)

\* A step of an rspamdQuery goroutine: the dispatch loop starts goroutines
\* and never touches one that exists.
GoroutineStep == DOMAIN tasks' = DOMAIN tasks /\ tasks' # tasks

\* C22: the registry and the session objects, transactions included, are
\* written by the dispatch loop alone: no step of an analysis goroutine
\* changes either.
C22_OnlyLoopWrites ==
    [][GoroutineStep => (sessions' = sessions /\ heap' = heap)]_vars

\* What the goroutines do leave alone: the registry, and of every session
\* object all but the action and the response of its transaction.
C22_GoroutineWritesVerdictOnly ==
    [][GoroutineStep =>
          /\ sessions' = sessions
          /\ Len(heap') = Len(heap)
          /\ \A o \in 1..Len(heap) :
                heap'[o] = [heap[o] EXCEPT !.tx.action = heap'[o].tx.action,
                                           !.tx.response = heap'[o].tx.response]]_vars

\* A goroutine has stored a rejection in the transaction the commit handler
\* will read.
C22_SharedWrite ==
    /\ 1 \in DOMAIN sessions
    /\ daemon[1].phase = "wait"
    /\ InFlight(DataToken(1, 0))
    /\ TxOf(1).action = "reject"
    /\ TxOf(1).message # <<>>

\* The positions of the terminator among the data lines of token t.
Terminators(t) == {i \in 1..Len(Block(t)) : Block(t)[i] = Terminator}

\* C23: the goroutine of an end-of-data marker emits one block at most: the
\* terminator occurs once at most among the lines of its token and no line
\* of the token follows it, so the body is not replayed a second time.
C23_OneBlock ==
    \A t \in DOMAIN tasks :
        /\ Cardinality(Terminators(t)) <= 1
        /\ \A i \in Terminators(t) : i = Len(Block(t))

\* The goroutine has returned after a resolve error, the body emitted twice.
C23_TwoBlocks ==
    \E t \in DOMAIN tasks :
        /\ tasks[t].pc = "done"
        /\ tasks[t].failed
        /\ Cardinality(Terminators(t)) = 2
        /\ Len(Block(t)) = 2 * (MaxBody + 1)

\* The daemon has sent the end-of-data marker of transaction n of
\* connection sid and waits for the block.
Marked(sid, n) == daemon[sid].phase = "wait" /\ daemon[sid].ntx = n

\* The terminator of that transaction has been printed.
Terminated(sid, n) ==
    \E i \in 1..Len(stdout) :
        /\ stdout[i][1] = "filter-dataline"
        /\ Carries(stdout[i], DataToken(sid, n))
        /\ stdout[i][4] = Terminator

\* C24: every end-of-data marker is followed, sooner or later, by the
\* printed terminator of its session and token, the input ending or not.
C24_TerminatorFollows ==
    \A sid \in SessionIds : \A n \in 0..MaxTx : Marked(sid, n) ~> Terminated(sid, n)

\* The input ended after the marker and before the terminator was printed:
\* the process has exited with the block unfinished.
C24_CutShort ==
    /\ main.pc = "exited"
    /\ Marked(1, 0)
    /\ ~Terminated(1, 0)
    /\ InFlight(DataToken(1, 0))
    /\ tasks[DataToken(1, 0)].pc = "emit"

====
